---- MODULE Spec2Model ----
(***************************************************************************)
(* A model of the relationship/association engine of pymodeling            *)
(* (src/modeling/instrument.py): the association containers                *)
(* (SingletonAssociation, SetAssociation, OrderedAssociation), the peer    *)
(* associators and the relationship descriptors built on them.             *)
(*                                                                         *)
(* Every method is a pure operator on a heap record                        *)
(*     h = [val, vals, seq, err, trace]                                    *)
(* val[e][o]   the slot of a ONE endpoint e on object o (None = 0),        *)
(* vals[e][o]  the 'values' set of a MANY/ORDERED container,               *)
(* seq[e][o]   the 'seq' list of an ORDERED container,                     *)
(* err         the exception in flight ("ok" when there is none),          *)
(* trace       the associate/dissociate calls made and the physical        *)
(*             writes done, in program order.                              *)
(* A raised exception skips the rest of the method, as in Python.          *)
(***************************************************************************)
EXTENDS Integers, Sequences, FiniteSets, TLC

\* ---------------------------------------------------------------- bounds
NObj == 4           \* number of model objects
MaxLen == 2         \* cap on the size of a container and of a list argument

None == 0
AllObjs == 1..NObj
Junk == NObj + 1    \* a value that is an instance of no model class (e.g. the int 15)
NoIndex == 0 - 1    \* association_index = None

VARIABLES cfg, val, vals, seq

\* forward references (modeling/forward.py): the context's TOPLEVEL names,
\* each reference's children (in creation order) and callbacks, the context's
\* PENDING set, and the top-level names whose define() has returned
VARIABLES toplevel, children, callbacks, pending, defined

\* the forward_call objects constructed so far, in order of construction
VARIABLES fcalls
fvars == <<toplevel, children, callbacks, pending, defined, fcalls>>

vars == <<cfg, val, vals, seq, toplevel, children, callbacks, pending, defined, fcalls>>

MaxRefs == 3        \* cap on the forward references alive at once
MaxCallbacks == 2   \* cap on the callbacks held by all references together
MaxCalls == 2       \* cap on the forward_call objects constructed
MaxUnderrun == 1    \* cap on how far below zero a barrier is followed
MaxSlots == 2       \* cap on the argument slots of all forward_call objects together

\* The references the program names, each by its path of names from the top
\* level: X, X.a, X.b, X.a.b, X.b.a and the same under Y.
TopNames == {"X", "Y"}
ChildNames == {"a", "b"}
Nodes ==
    {<<t>> : t \in TopNames}
        \cup {<<t, k>> : t \in TopNames, k \in ChildNames}
        \cup {<<t, c[1], c[2]>> : t \in TopNames,
                                  c \in {d \in ChildNames \X ChildNames : d[1] # d[2]}}

\* the functions the program attaches
Functions == {1, 2}

\* ForwardContext.__init__: nothing is registered and nothing is pending
ForwardContext_init ==
    /\ toplevel = {}
    /\ children = [n \in Nodes |-> <<>>]
    /\ callbacks = [n \in Nodes |-> <<>>]
    /\ pending = {}
    /\ defined = {}
    /\ fcalls = <<>>

Ends == {1, 2}

\* ------------------------------------------------------ the configuration
\* cfg.impl  "assoc": containers wired by Singleton/Set/OrderedAssociator
\*                    (create_associated_classes of the tests);
\*           "desc":  one/many/ordered_relationship_descriptor.
\* cfg.shape "two":   endpoint 1 on class 1 (odd objects), endpoint 2 on class 2;
\*           "same":  both endpoints on the one class of all objects;
\*           "self":  endpoint 1 is its own peer (symmetric relationship).
\* cfg.k1, cfg.k2     the kinds of the endpoints; cfg.ai1, cfg.ai2 their
\*                    association_index (NoIndex unless ORDERED descriptor).
KindOf(e) == IF e = 1 THEN cfg.k1 ELSE cfg.k2

AssociationIndex(e) == IF e = 1 THEN cfg.ai1 ELSE cfg.ai2

Peer(e) == IF cfg.shape = "self" THEN e ELSE 3 - e

\* the objects in use: two classes of objects, or fewer objects of one class
Objs ==
    CASE cfg.shape = "two"  -> AllObjs
      [] cfg.shape = "same" -> 1..(NObj - 2)
      [] OTHER              -> 1..(NObj - 1)

ClassOf(o) == IF cfg.shape = "two" THEN 2 - (o % 2) ELSE 1

HasEnd(o, e) ==
    CASE cfg.shape = "two"  -> o \in Objs /\ ClassOf(o) = e
      [] cfg.shape = "same" -> o \in Objs
      [] OTHER              -> o \in Objs /\ e = 1

\* isinstance(obj, content_type) for the content type of endpoint e: the class
\* that carries the peer endpoint.
IsInstance(obj, e) == obj \in Objs /\ HasEnd(obj, Peer(e))

\* ------------------------------------------------------------ list helpers
Min(a, b) == IF a < b THEN a ELSE b

Max(a, b) == IF a > b THEN a ELSE b

SeqToSet(s) == {s[k] : k \in 1..Len(s)}

NoDup(s) == \A a, b \in 1..Len(s) : s[a] = s[b] => a = b

\* list.insert(index, x), index >= 0 (clamped at the end)
ListInsert(s, index, x) ==
    LET k == Min(index, Len(s))
    IN  SubSeq(s, 1, k) \o <<x>> \o SubSeq(s, k + 1, Len(s))

\* del list[index], 0 <= index < len
ListDelete(s, index) == SubSeq(s, 1, index) \o SubSeq(s, index + 2, Len(s))

\* list.index(x) as a 0-based position; only used when x is in s
ListIndex(s, x) == (CHOOSE k \in 1..Len(s) : s[k] = x /\ \A m \in 1..(k - 1) : s[m] # x) - 1

\* list.remove(x), x in s
ListRemove(s, x) == ListDelete(s, ListIndex(s, x))

\* the bounds of list[lo:hi] for lo, hi >= 0 and step 1
SliceLo(s, lo) == Min(lo, Len(s))

SliceHi(s, lo, hi) == Max(SliceLo(s, lo), Min(hi, Len(s)))

\* list[lo:hi]
ListSlice(s, lo, hi) == SubSeq(s, SliceLo(s, lo) + 1, SliceHi(s, lo, hi))

\* list[lo:hi] = new
ListSetSlice(s, lo, hi, new) ==
    SubSeq(s, 1, SliceLo(s, lo)) \o new \o SubSeq(s, SliceHi(s, lo, hi) + 1, Len(s))

\* del list[lo:hi]
ListDelSlice(s, lo, hi) == ListSetSlice(s, lo, hi, <<>>)

ListReverse(s) == [k \in 1..Len(s) |-> s[Len(s) + 1 - k]]

\* list.sort(): ascending on the objects' order (their number stands for the key)
RECURSIVE ListSort(_)
ListSort(s) ==
    IF s = <<>> THEN <<>>
    ELSE LET k == CHOOSE a \in 1..Len(s) : \A b \in 1..Len(s) : s[a] <= s[b]
         IN  <<s[k]>> \o ListSort(ListDelete(s, k - 1))

\* The order in which Python iterates over a set is not specified: 'rev' picks
\* between the ascending and the descending enumeration of its elements.
RECURSIVE SetOrder(_, _)
SetOrder(S, rev) ==
    IF S = {} THEN <<>>
    ELSE LET x == IF rev THEN CHOOSE a \in S : \A b \in S : a >= b
                         ELSE CHOOSE a \in S : \A b \in S : a <= b
         IN  <<x>> \o SetOrder(S \ {x}, rev)

\* ------------------------------------------------------------------- heap
Heap == [val |-> val, vals |-> vals, seq |-> seq, err |-> "ok", trace |-> <<>>]

Raise(h, e) == [h EXCEPT !.err = e]

Log(h, what, e, a, b) == [h EXCEPT !.trace = Append(@, <<what, e, a, b>>)]

\* the three physical writes: a slot, a 'values' set, a 'seq' list
WriteValue(h, e, o, v) ==
    [h EXCEPT !.val[e][o] = v, !.trace = Append(@, <<"write.value", e, o, v>>)]

WriteValues(h, e, o, S) ==
    [h EXCEPT !.vals[e][o] = S, !.trace = Append(@, <<"write.values", e, o, 0>>)]

WriteSeq(h, e, o, s) ==
    [h EXCEPT !.seq[e][o] = s, !.trace = Append(@, <<"write.seq", e, o, 0>>)]

\* ------------------------------------------------------------- associators
\* a validation that reports None as a value of the wrong type
validate_object_typeonly(h, e, obj) ==
    IF obj = None \/ ~IsInstance(obj, e) THEN Raise(h, "AssociationTypeError") ELSE h

\* Associator.validate_object, of the associator of endpoint e
validate_object(h, e, obj) ==
    IF obj = None THEN Raise(h, "AssociationNoneError")
    ELSE IF ~IsInstance(obj, e) THEN Raise(h, "AssociationTypeError")
    ELSE h

\* SingletonAssociator.dissociate, for the slot of endpoint p on 'own'
SingletonAssociator_dissociate(h, p, own, other) ==
    IF own = other /\ Peer(p) = p THEN h
    ELSE WriteValue(h, p, own, None)

\* one_relationship_descriptor.dissociate
one_dissociate(h, p, obj, value) == WriteValue(h, p, obj, None)

\* a dissociate without the check for an object linked to itself
SetAssociator_dissociate_nocheck(h, p, own, other) ==
    IF other \notin h.vals[p][own] THEN Raise(h, "AssertionError")
    ELSE WriteValues(h, p, own, h.vals[p][own] \ {other})

\* SetAssociator.dissociate (also many_relationship_descriptor.dissociate)
SetAssociator_dissociate(h, p, own, other) ==
    IF own = other /\ Peer(p) = p THEN h
    ELSE IF other \notin h.vals[p][own] THEN Raise(h, "AssertionError")
    ELSE WriteValues(h, p, own, h.vals[p][own] \ {other})

\* OrderedAssociator.dissociate (also ordered_relationship_descriptor.dissociate):
\* values.remove, then seq.remove, which raises ValueError when other is not in seq
OrderedAssociator_dissociate(h, p, own, other) ==
    IF own = other /\ Peer(p) = p THEN h
    ELSE IF other \notin h.vals[p][own] THEN Raise(h, "AssertionError")
    ELSE LET h1 == WriteValues(h, p, own, h.vals[p][own] \ {other})
         IN  IF other \notin SeqToSet(h1.seq[p][own]) THEN Raise(h1, "ValueError")
             ELSE WriteSeq(h1, p, own, ListRemove(h1.seq[p][own], other))

\* <associator of endpoint p>.dissociate(own, other)
Dissociate(h, p, own, other) ==
    LET h1 == Log(h, "dissociate", p, own, other)
    IN  CASE KindOf(p) = "ONE" /\ cfg.impl = "assoc" -> SingletonAssociator_dissociate(h1, p, own, other)
          [] KindOf(p) = "ONE" /\ cfg.impl = "desc"  -> one_dissociate(h1, p, own, other)
          [] KindOf(p) = "MANY"                      -> SetAssociator_dissociate(h1, p, own, other)
          [] OTHER                                   -> OrderedAssociator_dissociate(h1, p, own, other)

\* an associate that takes the slot without releasing its occupant
SingletonAssociator_associate_keep(h, p, own, other) ==
    IF own = other /\ Peer(p) = p THEN h ELSE WriteValue(h, p, own, other)

\* SingletonAssociator.associate
SingletonAssociator_associate(h, p, own, other) ==
    IF own = other /\ Peer(p) = p THEN h
    ELSE IF h.val[p][own] = other THEN h
    ELSE LET h1 == IF h.val[p][own] # None
                   THEN Dissociate(h, Peer(p), h.val[p][own], own)
                   ELSE h
         IN  IF h1.err # "ok" THEN h1 ELSE WriteValue(h1, p, own, other)

\* one_relationship_descriptor.associate: the slot is written in a 'finally'
\* clause, so also when the peer's dissociate raised
one_associate(h, p, obj, value) ==
    LET h1 == IF h.val[p][obj] # None
              THEN Dissociate(h, Peer(p), h.val[p][obj], obj)
              ELSE h
    IN  WriteValue(h1, p, obj, value)

\* SetAssociator.associate (also many_relationship_descriptor.associate)
SetAssociator_associate(h, p, own, other) ==
    IF own = other /\ Peer(p) = p THEN h
    ELSE WriteValues(h, p, own, h.vals[p][own] \cup {other})

\* an associate that puts the new element at the front of the sequence
OrderedAssociator_associate_front(h, p, own, other) ==
    IF own = other /\ Peer(p) = p THEN h
    ELSE IF other \in h.vals[p][own] THEN Raise(h, "AssertionError")
    ELSE LET h1 == WriteValues(h, p, own, h.vals[p][own] \cup {other})
         IN  WriteSeq(h1, p, own, <<other>> \o h1.seq[p][own])

\* OrderedAssociator.associate (also ordered_relationship_descriptor.associate):
\* with an association_index it reads self.assoc_index, an attribute that no
\* associator has, after values.add
OrderedAssociator_associate(h, p, own, other) ==
    IF own = other /\ Peer(p) = p THEN h
    ELSE IF other \in h.vals[p][own] THEN Raise(h, "AssertionError")
    ELSE LET h1 == WriteValues(h, p, own, h.vals[p][own] \cup {other})
         IN  IF AssociationIndex(p) = NoIndex
             THEN WriteSeq(h1, p, own, Append(h1.seq[p][own], other))
             ELSE Raise(h1, "AttributeError")

\* <associator of endpoint p>.associate(own, other)
Associate(h, p, own, other) ==
    LET h1 == Log(h, "associate", p, own, other)
    IN  CASE KindOf(p) = "ONE" /\ cfg.impl = "assoc" -> SingletonAssociator_associate(h1, p, own, other)
          [] KindOf(p) = "ONE" /\ cfg.impl = "desc"  -> one_associate(h1, p, own, other)
          [] KindOf(p) = "MANY"                      -> SetAssociator_associate(h1, p, own, other)
          [] OTHER                                   -> OrderedAssociator_associate(h1, p, own, other)

\* for x in xs: <associator of p>.dissociate(x, owner)
RECURSIVE DissociateAll(_, _, _, _)
DissociateAll(h, p, xs, owner) ==
    IF xs = <<>> \/ h.err # "ok" THEN h
    ELSE DissociateAll(Dissociate(h, p, Head(xs), owner), p, Tail(xs), owner)

\* for x in xs: <associator of p>.associate(x, owner)
RECURSIVE AssociateAll(_, _, _, _)
AssociateAll(h, p, xs, owner) ==
    IF xs = <<>> \/ h.err # "ok" THEN h
    ELSE AssociateAll(Associate(h, p, Head(xs), owner), p, Tail(xs), owner)

\* ------------------------------------------------------ SingletonAssociation
\* a set that forgets to tell the previous value's side
SingletonAssociation_set_forget(h, e, owner, newvalue) ==
    LET h1 == IF newvalue # None THEN validate_object(h, e, newvalue) ELSE h
        h3 == IF h1.err = "ok" THEN WriteValue(h1, e, owner, newvalue) ELSE h1
    IN  IF h3.err = "ok" /\ newvalue # None
        THEN Associate(h3, Peer(e), newvalue, owner)
        ELSE h3

\* SingletonAssociation.set, on the container of endpoint e of 'owner'
SingletonAssociation_set(h, e, owner, newvalue) ==
    LET h1 == IF newvalue # None THEN validate_object(h, e, newvalue) ELSE h
        h2 == IF h1.err = "ok" /\ h1.val[e][owner] # None
              THEN Dissociate(h1, Peer(e), h1.val[e][owner], owner)
              ELSE h1
        h3 == IF h2.err = "ok" THEN WriteValue(h2, e, owner, newvalue) ELSE h2
    IN  IF h3.err = "ok" /\ newvalue # None
        THEN Associate(h3, Peer(e), newvalue, owner)
        ELSE h3

\* ------------------------------------------------------------ SetAssociation
\* an add that edits the membership set and leaves the peer associator alone
SetAssociation_add_silent(h, e, owner, value) ==
    IF value \in h.vals[e][owner] THEN h
    ELSE LET h1 == validate_object(h, e, value)
         IN  IF h1.err # "ok" THEN h1
             ELSE WriteValues(h1, e, owner, h1.vals[e][owner] \cup {value})

\* SetAssociation.add
SetAssociation_add(h, e, owner, value) ==
    IF value \in h.vals[e][owner] THEN h
    ELSE LET h1 == validate_object(h, e, value)
         IN  IF h1.err # "ok" THEN h1
             ELSE Associate(WriteValues(h1, e, owner, h1.vals[e][owner] \cup {value}),
                            Peer(e), value, owner)

\* a discard that raises when the value is not a member, as remove does
SetAssociation_discard_strict(h, e, owner, value) ==
    IF value \notin h.vals[e][owner] THEN Raise(h, "KeyError")
    ELSE Dissociate(WriteValues(h, e, owner, h.vals[e][owner] \ {value}),
                    Peer(e), value, owner)

\* SetAssociation.discard
SetAssociation_discard(h, e, owner, value) ==
    IF value \notin h.vals[e][owner] THEN h
    ELSE Dissociate(WriteValues(h, e, owner, h.vals[e][owner] \ {value}),
                    Peer(e), value, owner)

\* MutableSet.remove: KeyError when absent, else discard
SetAssociation_remove(h, e, owner, value) ==
    IF value \notin h.vals[e][owner] THEN Raise(h, "KeyError")
    ELSE SetAssociation_discard(h, e, owner, value)

\* SetAssociation.clear: dissociate every member, then values.clear()
SetAssociation_clear(h, e, owner, rev) ==
    LET h1 == DissociateAll(h, Peer(e), SetOrder(h.vals[e][owner], rev), owner)
    IN  IF h1.err # "ok" THEN h1 ELSE WriteValues(h1, e, owner, {})

\* for x in sobj: self.add(x)
RECURSIVE SetAssociation_addAll(_, _, _, _)
SetAssociation_addAll(h, e, owner, sobj) ==
    IF sobj = <<>> \/ h.err # "ok" THEN h
    ELSE SetAssociation_addAll(SetAssociation_add(h, e, owner, Head(sobj)), e, owner, Tail(sobj))

\* SetAssociation.assign
SetAssociation_assign(h, e, owner, sobj, rev) ==
    SetAssociation_addAll(SetAssociation_clear(h, e, owner, rev), e, owner, sobj)

\* SetAssociation.assign(self): sobj is the container itself, which the loop
\* iterates after the clear
SetAssociation_assign_self(h, e, owner, rev) ==
    LET h1 == SetAssociation_clear(h, e, owner, rev)
    IN  SetAssociation_addAll(h1, e, owner, SetOrder(h1.vals[e][owner], rev))

\* -------------------------------------------------------- OrderedAssociation
\* a slice assignment that edits the sequence before it validates the new value
OrderedAssociation_setslice_early(h, e, owner, lo, hi, newvalue, rev) ==
    LET newvals         == SeqToSet(newvalue)
        removed         == SeqToSet(ListSlice(h.seq[e][owner], lo, hi))
        new_not_removed == newvals \ removed
        removed_not_new == removed \ newvals
        bad == {k \in 1..Len(newvalue) : newvalue[k] = None \/ ~IsInstance(newvalue[k], e)}
        first == CHOOSE k \in bad : \A m \in bad : k <= m
        h1 == WriteSeq(h, e, owner, ListSetSlice(h.seq[e][owner], lo, hi, newvalue))
    IN  IF ~NoDup(newvalue) THEN Raise(h, "AssociationDuplicateError")
        ELSE IF h.vals[e][owner] \cap new_not_removed # {} THEN Raise(h1, "AssociationDuplicateError")
        ELSE IF bad # {} THEN validate_object(h1, e, newvalue[first])
        ELSE LET h2 == WriteValues(h1, e, owner, h1.vals[e][owner] \ removed_not_new)
                 h3 == WriteValues(h2, e, owner, h2.vals[e][owner] \cup new_not_removed)
                 h4 == DissociateAll(h3, Peer(e), SetOrder(removed_not_new, rev), owner)
             IN  AssociateAll(h4, Peer(e), SetOrder(new_not_removed, rev), owner)

\* a slice assignment that dissociates every element of the old slice and
\* associates every element of the new value
OrderedAssociation_setslice_all(h, e, owner, lo, hi, newvalue, rev) ==
    LET newvals         == SeqToSet(newvalue)
        removed         == SeqToSet(ListSlice(h.seq[e][owner], lo, hi))
        new_not_removed == newvals \ removed
        removed_not_new == removed \ newvals
        bad == {k \in 1..Len(newvalue) : newvalue[k] = None \/ ~IsInstance(newvalue[k], e)}
        first == CHOOSE k \in bad : \A m \in bad : k <= m
    IN  IF ~NoDup(newvalue) THEN Raise(h, "AssociationDuplicateError")
        ELSE IF h.vals[e][owner] \cap new_not_removed # {} THEN Raise(h, "AssociationDuplicateError")
        ELSE IF bad # {} THEN validate_object(h, e, newvalue[first])
        ELSE LET h1 == WriteSeq(h, e, owner, ListSetSlice(h.seq[e][owner], lo, hi, newvalue))
                 h2 == WriteValues(h1, e, owner, h1.vals[e][owner] \ removed_not_new)
                 h3 == WriteValues(h2, e, owner, h2.vals[e][owner] \cup new_not_removed)
                 h4 == DissociateAll(h3, Peer(e), SetOrder(removed, rev), owner)
             IN  AssociateAll(h4, Peer(e), SetOrder(newvals, rev), owner)

\* OrderedAssociation.__setitem__ with a slice [lo:hi] and a list newvalue
OrderedAssociation_setslice(h, e, owner, lo, hi, newvalue, rev) ==
    LET newvals         == SeqToSet(newvalue)
        removed         == SeqToSet(ListSlice(h.seq[e][owner], lo, hi))
        new_not_removed == newvals \ removed
        removed_not_new == removed \ newvals
        bad == {k \in 1..Len(newvalue) : newvalue[k] = None \/ ~IsInstance(newvalue[k], e)}
        first == CHOOSE k \in bad : \A m \in bad : k <= m
    IN  IF ~NoDup(newvalue) THEN Raise(h, "AssociationDuplicateError")
        ELSE IF h.vals[e][owner] \cap new_not_removed # {} THEN Raise(h, "AssociationDuplicateError")
        ELSE IF bad # {} THEN validate_object(h, e, newvalue[first])
        ELSE LET h1 == WriteSeq(h, e, owner, ListSetSlice(h.seq[e][owner], lo, hi, newvalue))
                 h2 == WriteValues(h1, e, owner, h1.vals[e][owner] \ removed_not_new)
                 h3 == WriteValues(h2, e, owner, h2.vals[e][owner] \cup new_not_removed)
                 h4 == DissociateAll(h3, Peer(e), SetOrder(removed_not_new, rev), owner)
             IN  AssociateAll(h4, Peer(e), SetOrder(new_not_removed, rev), owner)

\* OrderedAssociation.__setitem__ with an int index >= 0
OrderedAssociation_setitem(h, e, owner, index, newvalue) ==
    IF index >= Len(h.seq[e][owner]) THEN Raise(h, "IndexError")
    ELSE LET oldvalue == h.seq[e][owner][index + 1]
         IN  IF oldvalue = newvalue THEN h
             ELSE IF newvalue \in h.vals[e][owner] THEN Raise(h, "AssociationDuplicateError")
             ELSE LET h0 == validate_object(h, e, newvalue)
                  IN  IF h0.err # "ok" THEN h0
                      ELSE IF oldvalue \notin h0.vals[e][owner] THEN Raise(h0, "KeyError")
                      ELSE LET h1 == WriteValues(h0, e, owner, h0.vals[e][owner] \ {oldvalue})
                               h2 == WriteValues(h1, e, owner, h1.vals[e][owner] \cup {newvalue})
                               h3 == WriteSeq(h2, e, owner, [h2.seq[e][owner] EXCEPT ![index + 1] = newvalue])
                               h4 == Dissociate(h3, Peer(e), oldvalue, owner)
                           IN  IF h4.err # "ok" THEN h4
                               ELSE Associate(h4, Peer(e), newvalue, owner)

\* OrderedAssociation.__delitem__ with an int index >= 0
OrderedAssociation_delitem(h, e, owner, index) ==
    IF index >= Len(h.seq[e][owner]) THEN Raise(h, "IndexError")
    ELSE LET U  == h.seq[e][owner][index + 1]
             h1 == WriteSeq(h, e, owner, ListDelete(h.seq[e][owner], index))
         IN  IF U \notin h1.vals[e][owner] THEN Raise(h1, "KeyError")
             ELSE Dissociate(WriteValues(h1, e, owner, h1.vals[e][owner] \ {U}), Peer(e), U, owner)

\* the loop of __delitem__ over the deleted slice U:
\* for x in U: self.values.remove(x); dissociate(x, owner)
RECURSIVE OrderedAssociation_dropAll(_, _, _, _)
OrderedAssociation_dropAll(h, e, owner, U) ==
    IF U = <<>> \/ h.err # "ok" THEN h
    ELSE IF Head(U) \notin h.vals[e][owner] THEN Raise(h, "KeyError")
    ELSE OrderedAssociation_dropAll(
             Dissociate(WriteValues(h, e, owner, h.vals[e][owner] \ {Head(U)}), Peer(e), Head(U), owner),
             e, owner, Tail(U))

\* OrderedAssociation.__delitem__ with a slice [lo:hi]
OrderedAssociation_delslice(h, e, owner, lo, hi) ==
    OrderedAssociation_dropAll(
        WriteSeq(h, e, owner, ListDelSlice(h.seq[e][owner], lo, hi)),
        e, owner, ListSlice(h.seq[e][owner], lo, hi))

\* an insert without the duplicate check
OrderedAssociation_insert_any(h, e, owner, index, newvalue) ==
    LET h0 == validate_object(h, e, newvalue)
    IN  IF h0.err # "ok" THEN h0
        ELSE LET h1 == WriteSeq(h0, e, owner, ListInsert(h0.seq[e][owner], index, newvalue))
                 h2 == WriteValues(h1, e, owner, h1.vals[e][owner] \cup {newvalue})
             IN  Associate(h2, Peer(e), newvalue, owner)

\* OrderedAssociation.insert
OrderedAssociation_insert(h, e, owner, index, newvalue) ==
    IF newvalue \in h.vals[e][owner] THEN Raise(h, "AssociationDuplicateError")
    ELSE LET h0 == validate_object(h, e, newvalue)
         IN  IF h0.err # "ok" THEN h0
             ELSE LET h1 == WriteSeq(h0, e, owner, ListInsert(h0.seq[e][owner], index, newvalue))
                      h2 == WriteValues(h1, e, owner, h1.vals[e][owner] \cup {newvalue})
                  IN  Associate(h2, Peer(e), newvalue, owner)

\* MutableSequence.append: insert(len(self), value), and len(self) is len(self.values)
OrderedAssociation_append(h, e, owner, value) ==
    OrderedAssociation_insert(h, e, owner, Cardinality(h.vals[e][owner]), value)

\* MutableSequence.remove: del self[self.index(value)]
OrderedAssociation_remove(h, e, owner, value) ==
    IF value \notin SeqToSet(h.seq[e][owner]) THEN Raise(h, "ValueError")
    ELSE OrderedAssociation_delitem(h, e, owner, ListIndex(h.seq[e][owner], value))

\* MutableSequence.clear: pop() from the end until IndexError
RECURSIVE OrderedAssociation_clear(_, _, _)
OrderedAssociation_clear(h, e, owner) ==
    IF h.seq[e][owner] = <<>> \/ h.err # "ok" THEN h
    ELSE OrderedAssociation_clear(
             OrderedAssociation_delitem(h, e, owner, Len(h.seq[e][owner]) - 1), e, owner)

\* for x in sobj: self.append(x)
RECURSIVE OrderedAssociation_appendAll(_, _, _, _)
OrderedAssociation_appendAll(h, e, owner, sobj) ==
    IF sobj = <<>> \/ h.err # "ok" THEN h
    ELSE OrderedAssociation_appendAll(
             OrderedAssociation_append(h, e, owner, Head(sobj)), e, owner, Tail(sobj))

\* OrderedAssociation.assign
OrderedAssociation_assign(h, e, owner, sobj) ==
    OrderedAssociation_appendAll(OrderedAssociation_clear(h, e, owner), e, owner, sobj)

\* OrderedAssociation.assign(self): sobj is the container itself, which the
\* loop iterates after the clear
OrderedAssociation_assign_self(h, e, owner) ==
    LET h1 == OrderedAssociation_clear(h, e, owner)
    IN  OrderedAssociation_appendAll(h1, e, owner, h1.seq[e][owner])

\* OrderedAssociation.sort
OrderedAssociation_sort(h, e, owner, reverse) ==
    WriteSeq(h, e, owner,
             IF reverse THEN ListReverse(ListSort(h.seq[e][owner])) ELSE ListSort(h.seq[e][owner]))

\* a reverse that loses the element that comes first
OrderedAssociation_reverse_short(h, e, owner) ==
    IF h.seq[e][owner] = <<>> THEN h
    ELSE WriteSeq(h, e, owner, Tail(ListReverse(h.seq[e][owner])))

\* OrderedAssociation.reverse
OrderedAssociation_reverse(h, e, owner) ==
    WriteSeq(h, e, owner, ListReverse(h.seq[e][owner]))

\* ------------------------------------------------------------- descriptors
\* one_relationship_descriptor.direct_set (obj.r = value)
direct_set(h, e, obj, value) ==
    IF value # None /\ ~IsInstance(value, e) THEN Raise(h, "ValueError")
    ELSE LET h1 == Associate(h, e, obj, value)
         IN  IF h1.err = "ok" /\ value # None
             THEN Associate(h1, Peer(e), value, obj)
             ELSE h1

\* ----------------------------------------------------------- state machine
Kinds == {"ONE", "MANY", "ORDERED"}

KindPairs == {<<"ONE", "ONE">>, <<"ONE", "MANY">>, <<"MANY", "MANY">>,
              <<"ONE", "ORDERED">>, <<"MANY", "ORDERED">>, <<"ORDERED", "ORDERED">>}

Config(impl, shape, k1, k2, ai1, ai2) ==
    [impl |-> impl, shape |-> shape, k1 |-> k1, k2 |-> k2, ai1 |-> ai1, ai2 |-> ai2]

\* create_associated_classes(kind1, kind2) of the tests, and an associator that
\* is its own peer; OrderedAssociator.__init__ leaves association_index None
AssocConfigs == {Config("assoc", "two", kp[1], kp[2], NoIndex, NoIndex) : kp \in KindPairs}

AssocSelfConfigs == {Config("assoc", "self", k, k, NoIndex, NoIndex) : k \in Kinds}

\* the association_index an ordered_relationship_descriptor may be given
IndexChoices(k) == IF k = "ORDERED" THEN {NoIndex, 0} ELSE {NoIndex}

\* an endpoint's kind with its association_index
EndChoices == {c \in Kinds \X {NoIndex, 0} : c[2] \in IndexChoices(c[1])}

\* descriptors initialized as each other's peers, on two classes or on one,
\* and a descriptor initialized as its own peer
PlainDescConfigs ==
    {Config("desc", sh, kp[1], kp[2], NoIndex, NoIndex) : sh \in {"two", "same"}, kp \in KindPairs}
    \cup {Config("desc", "self", k, k, NoIndex, NoIndex) : k \in Kinds}

\* an ordered_relationship_descriptor given assoc_index = 0, facing a ONE or a
\* MANY endpoint
IndexedDescConfigs ==
    {Config("desc", "two", c[1], "ORDERED", c[2], 0) : c \in {d \in EndChoices : d[1] # "ORDERED"}}

DescConfigs == PlainDescConfigs \cup IndexedDescConfigs

\* Every container exists and is empty: each object's endpoint has been read
\* once, which is when a descriptor creates the container.
InitHeap(configs) ==
    /\ cfg \in configs
    /\ val = [e \in Ends |-> [o \in AllObjs |-> None]]
    /\ vals = [e \in Ends |-> [o \in AllObjs |-> {}]]
    /\ seq = [e \in Ends |-> [o \in AllObjs |-> <<>>]]
    /\ ForwardContext_init

\* the values offered to the container of endpoint e: the objects of its content
\* type, None, and a value of another type
Inputs(e) == {x \in Objs : IsInstance(x, e)} \cup {None, Junk}

\* the lists offered to a bulk operation on the container of endpoint e
ListsUpTo(e, n) == UNION {[1..k -> Inputs(e)] : k \in 0..n}

\* The orders in which a set of n elements is iterated. The calls of a loop
\* over a set edit the containers of distinct objects, so the order shows only
\* when a call raises in mid-loop, which takes an association_index.
RevChoices(n) ==
    IF n >= 2 /\ (cfg.ai1 # NoIndex \/ cfg.ai2 # NoIndex) THEN BOOLEAN ELSE {FALSE}

\* no container grows beyond MaxLen
Cap(h) ==
    \A e \in Ends, o \in Objs :
        Cardinality(h.vals[e][o]) <= MaxLen /\ Len(h.seq[e][o]) <= MaxLen

\* the operation returned (or raised) leaving heap h
Do(h) ==
    /\ Cap(h)
    /\ val' = h.val
    /\ vals' = h.vals
    /\ seq' = h.seq
    /\ UNCHANGED cfg
    /\ UNCHANGED fvars

\* container.set(x) on a SingletonAssociation
SingletonSet ==
    \E e \in Ends, o \in Objs : \E x \in Inputs(e) :
        /\ cfg.impl = "assoc" /\ KindOf(e) = "ONE" /\ HasEnd(o, e)
        /\ Do(SingletonAssociation_set(Heap, e, o, x))

\* o.r = x through one_relationship_descriptor.__set__
OneAssign ==
    \E e \in Ends, o \in Objs : \E x \in Inputs(e) :
        /\ cfg.impl = "desc" /\ KindOf(e) = "ONE" /\ HasEnd(o, e)
        /\ Do(direct_set(Heap, e, o, x))

SetAdd ==
    \E e \in Ends, o \in Objs : \E x \in Inputs(e) :
        /\ KindOf(e) = "MANY" /\ HasEnd(o, e)
        /\ Do(SetAssociation_add(Heap, e, o, x))

SetDiscard ==
    \E e \in Ends, o \in Objs : \E x \in Inputs(e) :
        /\ KindOf(e) = "MANY" /\ HasEnd(o, e)
        /\ Do(SetAssociation_discard(Heap, e, o, x))

SetRemove ==
    \E e \in Ends, o \in Objs : \E x \in Inputs(e) :
        /\ KindOf(e) = "MANY" /\ HasEnd(o, e)
        /\ Do(SetAssociation_remove(Heap, e, o, x))

SetClear ==
    \E e \in Ends, o \in Objs : \E rev \in RevChoices(Cardinality(vals[e][o])) :
        /\ KindOf(e) = "MANY" /\ HasEnd(o, e)
        /\ Do(SetAssociation_clear(Heap, e, o, rev))

\* container.assign(lst), which is also o.rs = lst through the descriptor
SetAssign ==
    \E e \in Ends, o \in Objs :
        \E lst \in ListsUpTo(e, MaxLen), rev \in RevChoices(Cardinality(vals[e][o])) :
            /\ KindOf(e) = "MANY" /\ HasEnd(o, e)
            /\ Do(SetAssociation_assign(Heap, e, o, lst, rev))

OrdAppend ==
    \E e \in Ends, o \in Objs : \E x \in Inputs(e) :
        /\ KindOf(e) = "ORDERED" /\ HasEnd(o, e)
        /\ Do(OrderedAssociation_append(Heap, e, o, x))

OrdInsert ==
    \E e \in Ends, o \in Objs : \E x \in Inputs(e), i \in 0..Len(seq[e][o]) :
        /\ KindOf(e) = "ORDERED" /\ HasEnd(o, e)
        /\ Do(OrderedAssociation_insert(Heap, e, o, i, x))

\* container[i] = x, with i up to len (where it raises IndexError)
OrdSetItem ==
    \E e \in Ends, o \in Objs : \E x \in Inputs(e), i \in 0..Len(seq[e][o]) :
        /\ KindOf(e) = "ORDERED" /\ HasEnd(o, e)
        /\ Do(OrderedAssociation_setitem(Heap, e, o, i, x))

\* container[i:j] = lst
OrdSetSlice ==
    \E e \in Ends, o \in Objs :
        \E j \in 0..Len(seq[e][o]), lst \in ListsUpTo(e, MaxLen) :
            \E i \in 0..j : \E rev \in RevChoices(Max(j - i, Len(lst))) :
                /\ KindOf(e) = "ORDERED" /\ HasEnd(o, e)
                /\ Do(OrderedAssociation_setslice(Heap, e, o, i, j, lst, rev))

\* del container[i], with i up to len (where it raises IndexError)
OrdDelItem ==
    \E e \in Ends, o \in Objs : \E i \in 0..Len(seq[e][o]) :
        /\ KindOf(e) = "ORDERED" /\ HasEnd(o, e)
        /\ Do(OrderedAssociation_delitem(Heap, e, o, i))

\* del container[i:j]
OrdDelSlice ==
    \E e \in Ends, o \in Objs : \E j \in 0..Len(seq[e][o]) : \E i \in 0..j :
        /\ KindOf(e) = "ORDERED" /\ HasEnd(o, e)
        /\ Do(OrderedAssociation_delslice(Heap, e, o, i, j))

OrdRemove ==
    \E e \in Ends, o \in Objs : \E x \in Inputs(e) :
        /\ KindOf(e) = "ORDERED" /\ HasEnd(o, e)
        /\ Do(OrderedAssociation_remove(Heap, e, o, x))

OrdClear ==
    \E e \in Ends, o \in Objs :
        /\ KindOf(e) = "ORDERED" /\ HasEnd(o, e)
        /\ Do(OrderedAssociation_clear(Heap, e, o))

\* container.assign(lst), which is also o.rl = lst through the descriptor
OrdAssign ==
    \E e \in Ends, o \in Objs : \E lst \in ListsUpTo(e, MaxLen) :
        /\ KindOf(e) = "ORDERED" /\ HasEnd(o, e)
        /\ Do(OrderedAssociation_assign(Heap, e, o, lst))

OrdSort ==
    \E e \in Ends, o \in Objs, reverse \in BOOLEAN :
        /\ KindOf(e) = "ORDERED" /\ HasEnd(o, e)
        /\ Do(OrderedAssociation_sort(Heap, e, o, reverse))

OrdReverse ==
    \E e \in Ends, o \in Objs :
        /\ KindOf(e) = "ORDERED" /\ HasEnd(o, e)
        /\ Do(OrderedAssociation_reverse(Heap, e, o))

ContainerOp ==
    \/ SetAdd \/ SetDiscard \/ SetRemove \/ SetClear \/ SetAssign
    \/ OrdAppend \/ OrdInsert \/ OrdSetItem \/ OrdSetSlice \/ OrdDelItem
    \/ OrdDelSlice \/ OrdRemove \/ OrdClear \/ OrdAssign \/ OrdSort \/ OrdReverse

\* the containers wired by the associator classes
InitAssoc == InitHeap(AssocConfigs)

NextAssoc == SingletonSet \/ ContainerOp

SpecAssoc == InitAssoc /\ [][NextAssoc]_vars

\* the endpoints instrumented with relationship descriptors
InitDesc == InitHeap(DescConfigs)

NextDesc == OneAssign \/ ContainerOp

SpecDesc == InitDesc /\ [][NextDesc]_vars

\* the relationships among ONE and MANY endpoints, of both implementations and
\* of every shape
UnorderedConfigs ==
    {c \in AssocConfigs \cup AssocSelfConfigs \cup PlainDescConfigs :
        c.k1 # "ORDERED" /\ c.k2 # "ORDERED"}

InitUnordered == InitHeap(UnorderedConfigs)

NextUnordered ==
    SingletonSet \/ OneAssign \/ SetAdd \/ SetDiscard \/ SetRemove \/ SetClear \/ SetAssign

SpecUnordered == InitUnordered /\ [][NextUnordered]_vars

\* the symmetric self-relationships of every kind, of both implementations
SelfConfigs == {c \in AssocSelfConfigs \cup PlainDescConfigs : c.shape = "self"}

InitSelf == InitHeap(SelfConfigs)

NextSelf == SingletonSet \/ OneAssign \/ ContainerOp

SpecSelf == InitSelf /\ [][NextSelf]_vars

\* the containers wired by the associator classes, edited one element at a
\* time
InitStep == InitHeap(AssocConfigs)

NextStep == SingletonSet \/ SetAdd \/ SetRemove \/ OrdInsert \/ OrdDelItem

SpecStep == InitStep /\ [][NextStep]_vars

\* two classes instrumented with descriptors that have no association index,
\* edited one element at a time
InitLink == InitHeap({c \in PlainDescConfigs : c.shape = "two"})

NextLink == OneAssign \/ SetAdd \/ SetRemove \/ OrdInsert \/ OrdDelItem

SpecLink == InitLink /\ [][NextLink]_vars

\* ------------------------------------------------------------------ claims
\* x is a member of the container of endpoint e on o (__contains__; for a ONE
\* endpoint, 'o.r is x')
Member(e, o, x) ==
    IF KindOf(e) = "ONE" THEN x # None /\ val[e][o] = x ELSE x \in vals[e][o]

\* referential symmetry: y in x.endpoint iff x in y.peer_endpoint
Symmetric ==
    \A e \in Ends, x \in Objs, y \in Objs :
        HasEnd(x, e) /\ HasEnd(y, Peer(e)) => (Member(e, x, y) <=> Member(Peer(e), y, x))

\* C1: for containers linked by a pair of peer associators, of each of the six
\* kind pairs, after every operation of any sequence of operations y is in x's
\* container iff x is in y's container.
C1_Symmetry == cfg.impl = "assoc" => Symmetric

\* two ORDERED containers of associator-wired classes that hold each other's
\* owners, one of them with two members
C1_Witness ==
    /\ cfg.impl = "assoc" /\ cfg.k1 = "ORDERED" /\ cfg.k2 = "ORDERED"
    /\ \E x \in Objs, y \in Objs :
          /\ HasEnd(x, 1) /\ HasEnd(y, 2)
          /\ Len(seq[1][x]) = 2 /\ seq[1][x][2] = y /\ x \in SeqToSet(seq[2][y])

\* C2: for endpoints instrumented with the relationship descriptors and
\* initialized as each other's peers (two classes or one), after every
\* operation of any sequence of assignments and container mutations y is in
\* x.endpoint iff x is in y.peer_endpoint.
C2_DescriptorSymmetry == cfg.impl = "desc" => Symmetric

\* C3: after every operation an OrderedAssociation's sequence has no duplicate
\* and no None, and the set of its elements is the membership set, so that
\* len(seq) = len(values).
C3_OrderedInvariant ==
    \A e \in Ends, o \in Objs :
        KindOf(e) = "ORDERED" /\ HasEnd(o, e) =>
            /\ NoDup(seq[e][o])
            /\ None \notin SeqToSet(seq[e][o])
            /\ SeqToSet(seq[e][o]) = vals[e][o]
            /\ Len(seq[e][o]) = Cardinality(vals[e][o])

\* o.r = x on a ONE endpoint: container.set(x), or the descriptor's __set__
SetOne(h, e, o, x) ==
    IF cfg.impl = "assoc" THEN SingletonAssociation_set(h, e, o, x) ELSE direct_set(h, e, o, x)

OneOne == cfg.k1 = "ONE" /\ cfg.k2 = "ONE"

\* the outcome of a.r = c that C4 describes, b being a.r and d, an object other
\* than a and c, being c.peer before
ReplaceOutcome(e, a, c) ==
    LET b == val[e][a]
        d == val[Peer(e)][c]
        h == SetOne(Heap, e, a, c)
    IN  /\ h.err = "ok"
        /\ h.val[e][a] = c
        /\ h.val[Peer(e)][c] = a
        /\ h.val[Peer(e)][b] = None
        /\ (d \notin {None, a, c} => h.val[e][d] = None)

\* C4 as stated: in a ONE-ONE relationship, if a.r is b and a.r = c is assigned
\* with c different from b, then afterwards a.r is c, c.peer is a and b.peer is
\* None, and if c was linked to another object d then d.r is None.
C4_Replace ==
    \A e \in Ends, a \in Objs, c \in Objs :
        /\ OneOne /\ HasEnd(a, e) /\ IsInstance(c, e)
        /\ val[e][a] # None /\ c # val[e][a]
        => ReplaceOutcome(e, a, c)

\* C4 (amended): the same, unless the endpoint is its own peer and a is linked
\* to itself (b is a), where the one slot that is both a.r and b.peer becomes c.
C4_ReplaceDistinct ==
    \A e \in Ends, a \in Objs, c \in Objs :
        /\ OneOne /\ HasEnd(a, e) /\ IsInstance(c, e)
        /\ val[e][a] # None /\ c # val[e][a]
        /\ ~(Peer(e) = e /\ val[e][a] = a)
        => ReplaceOutcome(e, a, c)

\* a is linked to b and c to d, four different objects, and a.r = c releases
\* both b and d
C4_Witness ==
    \E e \in Ends, a \in Objs, c \in Objs :
        /\ OneOne /\ HasEnd(a, e) /\ IsInstance(c, e) /\ a # c
        /\ val[e][a] \notin {None, a, c}
        /\ val[Peer(e)][c] \notin {None, a, c}
        /\ ReplaceOutcome(e, a, c)
        /\ SetOne(Heap, e, a, c).val[e][val[Peer(e)][c]] = None

\* d.many.add(x) or d.ordered.append(x) on the container of endpoint e
AddTo(h, e, d, x) ==
    IF KindOf(e) = "MANY" THEN SetAssociation_add(h, e, d, x)
    ELSE OrderedAssociation_append(h, e, d, x)

OneToMany == cfg.k1 = "ONE" /\ cfg.k2 \in {"MANY", "ORDERED"}

\* the peer containers (of endpoint 2) that x is a member of
ContainersOf(x) == {d \in Objs : HasEnd(d, 2) /\ x \in vals[2][d] \cup SeqToSet(seq[2][d])}

\* C5: in a ONE-MANY or ONE-ORDERED relationship, adding or appending x to the
\* container of d2 while x's ONE endpoint refers to another object d1 makes x's
\* endpoint refer to d2 and removes x from d1's container; and in every
\* reachable state an object of the ONE side is in at most one peer container.
C5_Move ==
    OneToMany =>
        /\ \A x \in Objs, d2 \in Objs :
              /\ HasEnd(x, 1) /\ HasEnd(d2, 2)
              /\ val[1][x] # None /\ val[1][x] # d2
              => LET d1 == val[1][x]
                     h  == AddTo(Heap, 2, d2, x)
                 IN  /\ h.val[1][x] = d2
                     /\ x \in h.vals[2][d2]
                     /\ x \notin h.vals[2][d1]
                     /\ x \notin SeqToSet(h.seq[2][d1])
        /\ \A x \in Objs : HasEnd(x, 1) => Cardinality(ContainersOf(x)) <= 1

\* n.neighbors.add(n), and n.neighbors.remove(n) after it
AddSelf(n) == SetAssociation_add(Heap, 1, n, n)

RemoveSelf(n) == SetAssociation_remove(AddSelf(n), 1, n, n)

\* the links of n, and those of the other objects, are in h as they are now,
\* but for n's link to itself
SameLinksButSelf(h, n) ==
    /\ h.vals[1][n] \ {n} = vals[1][n] \ {n}
    /\ \A m \in Objs \ {n} : h.vals[1][m] = vals[1][m]

\* C6: for a symmetric MANY self-relationship, n.neighbors.add(n) makes
\* 'n in n.neighbors' true and a following n.neighbors.remove(n) makes it false
\* again, both returning normally and leaving every other link of n unchanged.
C6_SelfLoop ==
    cfg.shape = "self" /\ cfg.k1 = "MANY" =>
        \A n \in Objs :
            /\ AddSelf(n).err = "ok"
            /\ n \in AddSelf(n).vals[1][n]
            /\ SameLinksButSelf(AddSelf(n), n)
            /\ RemoveSelf(n).err = "ok"
            /\ n \notin RemoveSelf(n).vals[1][n]
            /\ SameLinksButSelf(RemoveSelf(n), n)

\* n has a neighbor m and no link to itself, gets one by add(n) and loses it by
\* remove(n), m staying its neighbor
C6_Witness ==
    /\ cfg.shape = "self" /\ cfg.k1 = "MANY"
    /\ \E n \in Objs, m \in Objs :
          /\ m # n /\ m \in vals[1][n] /\ n \notin vals[1][n]
          /\ n \in AddSelf(n).vals[1][n]
          /\ RemoveSelf(n).vals[1][n] = vals[1][n]

\* a.r = a, a.rs.add(a), a.rl.append(a) on an endpoint that is its own peer
LinkSelf(a) ==
    CASE cfg.k1 = "ONE"  -> SetOne(Heap, 1, a, a)
      [] cfg.k1 = "MANY" -> SetAssociation_add(Heap, 1, a, a)
      [] OTHER           -> OrderedAssociation_append(Heap, 1, a, a)

\* the number of physical writes of kind 'what' that trace t does to the slot
\* or container of endpoint e on o
Writes(t, what, e, o) ==
    Cardinality({k \in 1..Len(t) : t[k][1] = what /\ t[k][2] = e /\ t[k][3] = o})

\* C7: when an endpoint is its own peer and an object is linked to itself, the
\* operation does a single physical edit of the object's slot or container (one
\* write of the slot, of the set, or of the list and its set), with the
\* container classes and with the descriptors.
C7_SingleEdit ==
    cfg.shape = "self" =>
        \A a \in Objs :
            /\ Writes(LinkSelf(a).trace, "write.value", 1, a) <= 1
            /\ Writes(LinkSelf(a).trace, "write.values", 1, a) <= 1
            /\ Writes(LinkSelf(a).trace, "write.seq", 1, a) <= 1

\* heap h holds what the state holds
Untouched(h) == h.val = val /\ h.vals = vals /\ h.seq = seq

\* the members of o's container of endpoint e outside the slice [i:j]
OutsideSlice(e, o, i, j) == vals[e][o] \ SeqToSet(ListSlice(seq[e][o], i, j))

Invalid(e, lst) == \E k \in 1..Len(lst) : lst[k] = None \/ ~IsInstance(lst[k], e)

ValidationErrors ==
    {"AssociationDuplicateError", "AssociationNoneError", "AssociationTypeError"}

\* C8: a slice assignment to an Ordered container whose new value has an
\* internal duplicate, or an element that is a member outside the replaced
\* slice, raises a duplicate error and leaves the sequence, the membership set
\* and every peer container as they were; the same holds (with a validation
\* error) when an element of the new value is None or of the wrong type.
C8_SliceAtomic ==
    \A e \in Ends, o \in Objs :
        KindOf(e) = "ORDERED" /\ HasEnd(o, e) =>
            \A j \in 0..Len(seq[e][o]), lst \in ListsUpTo(e, MaxLen) :
                \A i \in 0..j : \A rev \in RevChoices(Max(j - i, Len(lst))) :
                    LET h   == OrderedAssociation_setslice(Heap, e, o, i, j, lst, rev)
                        dup == ~NoDup(lst) \/ SeqToSet(lst) \cap OutsideSlice(e, o, i, j) # {}
                    IN  /\ dup => h.err = "AssociationDuplicateError" /\ Untouched(h)
                        /\ Invalid(e, lst) => h.err \in ValidationErrors /\ Untouched(h)

\* a container [x, y] whose owner is in the peers' containers: assigning
\* [y] to its slice [0:1] is refused as a duplicate, assigning [None] as invalid
C8_Witness ==
    \E e \in Ends, o \in Objs :
        /\ KindOf(e) = "ORDERED" /\ HasEnd(o, e) /\ Len(seq[e][o]) = 2
        /\ Member(Peer(e), seq[e][o][1], o)
        /\ OrderedAssociation_setslice(Heap, e, o, 0, 1, <<seq[e][o][2]>>, FALSE).err
               = "AssociationDuplicateError"
        /\ OrderedAssociation_setslice(Heap, e, o, 0, 1, <<None>>, FALSE).err
               = "AssociationNoneError"
        /\ OrderedAssociation_setslice(Heap, e, o, 0, 1, <<Junk>>, FALSE).err
               = "AssociationTypeError"

\* container.assign(lst) on a MANY or ORDERED endpoint (o.rs = lst, o.rl = lst)
Assign(h, e, o, lst, rev) ==
    IF KindOf(e) = "MANY" THEN SetAssociation_assign(h, e, o, lst, rev)
    ELSE OrderedAssociation_assign(h, e, o, lst)

\* C9: a bulk assignment that raises because the new value holds None, an object
\* of the wrong type or (ORDERED) a duplicate leaves the container and all
\* peer containers as they were before the call.
C9_AssignAtomic ==
    \A e \in Ends, o \in Objs :
        KindOf(e) \in {"MANY", "ORDERED"} /\ HasEnd(o, e) =>
            \A lst \in ListsUpTo(e, MaxLen), rev \in RevChoices(Cardinality(vals[e][o])) :
                Assign(Heap, e, o, lst, rev).err \in ValidationErrors
                    => Untouched(Assign(Heap, e, o, lst, rev))

\* the objects x for which trace t calls <associator of p>.<what>(x, o)
Called(t, what, p, o) ==
    {t[k][3] : k \in {m \in 1..Len(t) : t[m][1] = what /\ t[m][2] = p /\ t[m][4] = o}}

\* C10: a bulk assignment calls dissociate only for the elements of the old
\* extension that are absent from the new one and associate only for those of
\* the new one that are absent from the old, so that the peer side of an
\* element present in both is unchanged.
C10_AssignDiff ==
    \A e \in Ends, o \in Objs :
        KindOf(e) \in {"MANY", "ORDERED"} /\ HasEnd(o, e) =>
            \A lst \in ListsUpTo(e, MaxLen), rev \in RevChoices(Cardinality(vals[e][o])) :
                LET h == Assign(Heap, e, o, lst, rev)
                IN  h.err = "ok" =>
                        /\ Called(h.trace, "dissociate", Peer(e), o) \subseteq vals[e][o] \ SeqToSet(lst)
                        /\ Called(h.trace, "associate", Peer(e), o) \subseteq SeqToSet(lst) \ vals[e][o]
                        /\ \A x \in vals[e][o] \cap SeqToSet(lst) :
                              /\ h.val[Peer(e)][x] = val[Peer(e)][x]
                              /\ h.vals[Peer(e)][x] = vals[Peer(e)][x]
                              /\ h.seq[Peer(e)][x] = seq[Peer(e)][x]

\* C11: setting a ONE endpoint to the value it already holds is a no-op: no
\* container on either side changes, the position of the owner in the peer's
\* sequence included.
C11_SameValueNoOp ==
    \A e \in Ends, a \in Objs :
        KindOf(e) = "ONE" /\ HasEnd(a, e) /\ val[e][a] # None
            => Untouched(SetOne(Heap, e, a, val[e][a]))

\* an insert, an append or a single-index assignment that is refused as a
\* duplicate and changes nothing
RefusedDuplicate(h) == h.err = "AssociationDuplicateError" /\ Untouched(h)

\* C12: inserting or appending into an Ordered container a value it contains,
\* or assigning by index a value present at another position, raises a
\* duplicate error and leaves the sequence, the membership set and all peer
\* containers unchanged.
C12_DuplicateRefused ==
    \A e \in Ends, o \in Objs :
        KindOf(e) = "ORDERED" /\ HasEnd(o, e) =>
            \A x \in vals[e][o] :
                /\ RefusedDuplicate(OrderedAssociation_append(Heap, e, o, x))
                /\ \A i \in 0..Len(seq[e][o]) :
                      RefusedDuplicate(OrderedAssociation_insert(Heap, e, o, i, x))
                /\ \A i \in 0..(Len(seq[e][o]) - 1) :
                      seq[e][o][i + 1] # x
                          => RefusedDuplicate(OrderedAssociation_setitem(Heap, e, o, i, x))

\* a container [x, y]: appending y, inserting y at 0 and container[0] = y are
\* refused
C12_Witness ==
    \E e \in Ends, o \in Objs :
        /\ KindOf(e) = "ORDERED" /\ HasEnd(o, e) /\ Len(seq[e][o]) = 2
        /\ seq[e][o][1] # seq[e][o][2]
        /\ RefusedDuplicate(OrderedAssociation_append(Heap, e, o, seq[e][o][2]))
        /\ RefusedDuplicate(OrderedAssociation_insert(Heap, e, o, 0, seq[e][o][2]))
        /\ RefusedDuplicate(OrderedAssociation_setitem(Heap, e, o, 0, seq[e][o][2]))

\* add on a Set container, append and insert on an Ordered one
Offer(e, o, x) ==
    IF KindOf(e) = "MANY" THEN {SetAssociation_add(Heap, e, o, x)}
    ELSE {OrderedAssociation_append(Heap, e, o, x)}
             \cup {OrderedAssociation_insert(Heap, e, o, i, x) : i \in 0..Len(seq[e][o])}

\* C13: offering None to a Set or Ordered container raises a null-violation
\* error and offering an object that is no instance of the content type raises
\* a type-violation error; the container and every peer container are unchanged.
C13_InvalidRefused ==
    \A e \in Ends, o \in Objs :
        KindOf(e) \in {"MANY", "ORDERED"} /\ HasEnd(o, e) =>
            /\ \A h \in Offer(e, o, None) : h.err = "AssociationNoneError" /\ Untouched(h)
            /\ \A h \in Offer(e, o, Junk) : h.err = "AssociationTypeError" /\ Untouched(h)

\* a Set container and an Ordered one, each with a member, refuse None and a
\* value of another type
C13_Witness ==
    \E e \in Ends, o \in Objs :
        /\ cfg.k1 = "MANY" /\ cfg.k2 = "ORDERED" /\ HasEnd(o, e) /\ vals[e][o] # {}
        /\ vals[Peer(e)][CHOOSE x \in vals[e][o] : TRUE] # {}
        /\ \E h \in Offer(e, o, None) : h.err = "AssociationNoneError"
        /\ \E h \in Offer(e, o, Junk) : h.err = "AssociationTypeError"

\* C14: assigning to a ONE endpoint an object that is no instance of the target
\* type raises the type-violation error (the kind raised for a wrong-typed
\* member of a MANY/ORDERED container) and leaves the endpoint and every peer
\* unchanged.
C14_OneTypeError ==
    \A e \in Ends, a \in Objs :
        KindOf(e) = "ONE" /\ HasEnd(a, e) =>
            /\ SetOne(Heap, e, a, Junk).err = "AssociationTypeError"
            /\ Untouched(SetOne(Heap, e, a, Junk))

\* C15: Set.add(x) of a member and Set.discard(x) of a non-member raise no error
\* and change nothing on either side; add(x); add(x) yields the state of add(x).
C15_AddDiscardNoOp ==
    \A e \in Ends, o \in Objs :
        KindOf(e) = "MANY" /\ HasEnd(o, e) =>
            \A x \in Inputs(e) :
                LET h1 == SetAssociation_add(Heap, e, o, x)
                    h2 == SetAssociation_add(h1, e, o, x)
                    h3 == SetAssociation_discard(Heap, e, o, x)
                IN  /\ x \in vals[e][o] => h1.err = "ok" /\ Untouched(h1)
                    /\ x \notin vals[e][o] => h3.err = "ok" /\ Untouched(h3)
                    /\ h1.err = "ok" =>
                          /\ h2.err = "ok"
                          /\ h2.val = h1.val /\ h2.vals = h1.vals /\ h2.seq = h1.seq

\* a Set container with a member x and a non-member y that is linked elsewhere:
\* add(x) and discard(y) change nothing
C15_Witness ==
    \E e \in Ends, o \in Objs, x \in Objs, y \in Objs :
        /\ KindOf(e) = "MANY" /\ HasEnd(o, e)
        /\ x \in vals[e][o] /\ IsInstance(y, e) /\ y \notin vals[e][o]
        /\ \E q \in Objs : Member(Peer(e), y, q)
        /\ Untouched(SetAssociation_add(Heap, e, o, x))
        /\ Untouched(SetAssociation_discard(Heap, e, o, y))

\* ------------------------------------------------ forward references: model
\* The context and its references as one record; err is the exception the
\* operation raised ("ok" if none) and calls logs func(value, index) of every
\* callable that is not itself a reference.
Context ==
    [toplevel |-> toplevel, children |-> children, callbacks |-> callbacks,
     pending |-> pending, fcalls |-> fcalls, err |-> "ok", calls |-> <<>>]

FRaise(h, e) == [h EXCEPT !.err = e]

\* A reference is its path of names from the top level. The references alive
\* in h: a registered top-level name and the children reachable from it.
Live(h) ==
    {n \in Nodes :
        /\ n[1] \in h.toplevel
        /\ \A i \in 2..Len(n) : n[i] \in SeqToSet(h.children[SubSeq(n, 1, i - 1)])}

Parent(n) == SubSeq(n, 1, Len(n) - 1)

\* the references of the subtree of n, n included
Subtree(h, n) == {m \in Live(h) : Len(m) >= Len(n) /\ SubSeq(m, 1, Len(n)) = n}

\* Concrete values: an object and the attribute path followed from it.
\* Object 1 has every attribute a child can name; object 2 has no attribute b.
Objects == {1, 2}
Value(o) == [obj |-> o, path |-> <<>>]
hasattr(v, k) == ~(v.obj = 2 /\ v.path = <<>> /\ k = "b")
getattr(v, k) == [obj |-> v.obj, path |-> Append(v.path, k)]

\* the index a callback is attached with
Indexes == {None, 1}

\* One entry of a callback list, the pair (func, index): func is either a
\* function, named by the number id, or the reference ref (id 0).
Function(id, index) == [ref |-> <<>>, id |-> id, index |-> index]
Reference(n) == [ref |-> n, id |-> 0, index |-> None]

\* The entry (func, K) whose func is the bound method __storeslot (kw FALSE)
\* or __storekwslot (kw TRUE) of forward_call c.
Store(c, kw, K) == [ref |-> <<>>, id |-> 0, index |-> K, call |-> c, kw |-> kw]
IsStore(cb) == "call" \in DOMAIN cb

\* What an argument slot of a forward_call holds: a concrete value (Value or
\* the result of a call), a forward reference, or a forward_call.
RefSlot(n) == [slotref |-> n]
CallSlot(c) == [slotcall |-> c]
IsRefSlot(V) == "slotref" \in DOMAIN V
IsCallSlot(V) == "slotcall" \in DOMAIN V

\* func(*slots, **kwslots) of a function that returns: the value is named by
\* the function and the arguments it was called with
Result(func, slots, kwslots) == [func |-> func, args |-> slots, kwargs |-> kwslots]
NoResult == Result(0, <<>>, <<>>)

\* the log entry of forward_call c calling its function with result r
Run(c, r) == [id |-> 0, index |-> None, value |-> r, run |-> c]

\* a registration that accepts a name already registered
ForwardContext_call_again(h, name) == [h EXCEPT !.toplevel = @ \cup {name}]

\* ForwardContext.__call__(name)
ForwardContext_call(h, name) ==
    IF name \in h.toplevel THEN FRaise(h, "NameError")
    ELSE [h EXCEPT !.toplevel = @ \cup {name}]

\* ForwardReference.__getattribute__(k) on reference n, k # '_'
ForwardReference_getattribute(h, n, k) ==
    IF k \in SeqToSet(h.children[n]) THEN h
    ELSE [h EXCEPT !.children[n] = Append(@, k)]

\* attach that does not enter the reference in PENDING
ForwardReference_attach_untracked(h, n, callback) ==
    [h EXCEPT !.callbacks[n] = Append(@, callback)]

\* ForwardReference.attach(callback) on reference n
ForwardReference_attach(h, n, callback) ==
    LET h1 == IF h.callbacks[n] = <<>> THEN [h EXCEPT !.pending = @ \cup {n}] ELSE h
    IN  [h1 EXCEPT !.callbacks[n] = Append(@, callback)]

\* the functions some callback list holds
Attached(h) ==
    (UNION {{h.callbacks[m][i].id : i \in 1..Len(h.callbacks[m])} : m \in Nodes}
        \cup UNION {{h.fcalls[c].callbacks[i].id : i \in 1..Len(h.fcalls[c].callbacks)} :
                        c \in 1..Len(h.fcalls)}) \ {0}

\* ForwardProxy.attach(func, index) on reference n
ForwardProxy_attach(h, n, func, index) ==
    ForwardReference_attach(h, n, Function(func, index))

\* The depth of calls at which the interpreter raises RecursionError; no chain
\* of bindings without a cycle is that deep.
RecursionLimit == Cardinality(TopNames) + Cardinality(ChildNames) + 1

\* ForwardReference.__call__(value) on reference n with a value that is not a
\* reference, entered with room for depth more nested calls: the own callbacks
\* in list order, then the children in creation order, then the clean-up.
RECURSIVE ForwardReference_call(_, _, _, _)
RECURSIVE InvokeCallbacks(_, _, _, _)
RECURSIVE PropagateChildren(_, _, _, _, _)
RECURSIVE Invoke(_, _, _, _)
RECURSIVE forward_call_store(_, _, _, _, _)
RECURSIVE forward_call_barrier_run(_, _, _)
RECURSIVE forward_call_emit_all(_, _, _)
RECURSIVE forward_call_emit_all_front(_, _, _)
ForwardReference_call(h, n, value, depth) ==
    IF depth = 0 THEN FRaise(h, "RecursionError")
    ELSE
        LET h1 == InvokeCallbacks(h, h.callbacks[n], value, depth)
            h2 == IF h1.err # "ok" THEN h1
                  ELSE PropagateChildren(h1, n, h1.children[n], value, depth)
        IN  IF h2.err # "ok" THEN h2
            ELSE [h2 EXCEPT !.callbacks[n] = <<>>, !.pending = @ \ {n}]

\* for callback in callbacks: func(value, index)
InvokeCallbacks(h, cbs, value, depth) ==
    IF cbs = <<>> THEN h
    ELSE
        LET h1 == Invoke(h, Head(cbs), value, depth)
        IN  IF h1.err # "ok" THEN h1
            ELSE InvokeCallbacks(h1, Tail(cbs), value, depth)

\* func(value, index) for the entry cb = (func, index): a reference binds the
\* value, a store method of a forward_call fills its slot, a function is
\* logged
Invoke(h, cb, value, depth) ==
    IF cb.ref # <<>> THEN ForwardReference_call(h, cb.ref, value, depth - 1)
    ELSE IF IsStore(cb) THEN forward_call_store(h, cb.call, cb.kw, value, cb.index)
    ELSE [h EXCEPT !.calls = Append(@, [id |-> cb.id, index |-> cb.index, value |-> value])]

\* for child in children: children[child](getattr(value, child))
PropagateChildren(h, n, kids, value, depth) ==
    IF kids = <<>> THEN h
    ELSE
        LET k == Head(kids)
            h1 == IF hasattr(value, k)
                  THEN ForwardReference_call(h, Append(n, k), getattr(value, k), depth - 1)
                  ELSE FRaise(h, "AttributeError")
        IN  IF h1.err # "ok" THEN h1
            ELSE PropagateChildren(h1, n, Tail(kids), value, depth)

\* forward_call.__storeslot(value, loc) and __storekwslot(value, loc) of
\* forward_call c; positions count from 0, keyword slots are named by their
\* position in kwslots
forward_call_store(h, c, kw, value, loc) ==
    LET h1 == IF kw THEN [h EXCEPT !.fcalls[c].kwslots[loc + 1] = value]
              ELSE [h EXCEPT !.fcalls[c].slots[loc + 1] = value]
        h2 == [h1 EXCEPT !.fcalls[c].barrier = @ - 1]
    IN  IF h2.fcalls[c].barrier = 0 THEN forward_call_barrier_run(h2, c, RecursionLimit)
        ELSE h2

\* forward_call.__barrier_run
forward_call_barrier_run(h, c, depth) ==
    LET r == Result(h.fcalls[c].func, h.fcalls[c].slots, h.fcalls[c].kwslots)
        h1 == [h EXCEPT !.fcalls[c].result = r, !.fcalls[c].has_result = TRUE,
                        !.calls = Append(@, Run(c, r))]
    IN  forward_call_emit_all(h1, c, depth)

\* a loop that emits the queue from its front: self.callbacks.pop(0)
forward_call_emit_all_front(h, c, depth) ==
    LET cbs == h.fcalls[c].callbacks
    IN  IF cbs = <<>> THEN h
        ELSE
            LET h1 == [h EXCEPT !.fcalls[c].callbacks = Tail(cbs)]
                h2 == Invoke(h1, Head(cbs), h1.fcalls[c].result, depth)
            IN  IF h2.err # "ok" THEN h2 ELSE forward_call_emit_all_front(h2, c, depth)

\* while self.callbacks: self.__emit(self.callbacks.pop())
forward_call_emit_all(h, c, depth) ==
    LET cbs == h.fcalls[c].callbacks
    IN  IF cbs = <<>> THEN h
        ELSE
            LET h1 == [h EXCEPT !.fcalls[c].callbacks = SubSeq(cbs, 1, Len(cbs) - 1)]
                h2 == Invoke(h1, cbs[Len(cbs)], h1.fcalls[c].result, depth)
            IN  IF h2.err # "ok" THEN h2 ELSE forward_call_emit_all(h2, c, depth)

\* an __attach that queues the entry whether or not the result is there
forward_call_attach_queued(h, c, cb) ==
    [h EXCEPT !.fcalls[c].callbacks = Append(@, cb)]

\* forward_call.__attach(func, idx) on forward_call c, with the entry
\* cb = (func, idx)
forward_call_attach(h, c, cb) ==
    IF h.fcalls[c].has_result THEN Invoke(h, cb, h.fcalls[c].result, RecursionLimit)
    ELSE [h EXCEPT !.fcalls[c].callbacks = Append(@, cb)]

\* a __forward_store that takes a forward_call argument for a plain value
forward_call_forward_store_plain(h, c, kw, K, V) ==
    IF IsRefSlot(V)
    THEN ForwardReference_attach([h EXCEPT !.fcalls[c].barrier = @ + 1],
                                 V.slotref, Store(c, kw, K))
    ELSE h

\* forward_call.__forward_store(func, O, K, V) of forward_call c, func being
\* its __storeslot (kw FALSE) or __storekwslot (kw TRUE)
forward_call_forward_store(h, c, kw, K, V) ==
    IF IsRefSlot(V)
    THEN ForwardReference_attach([h EXCEPT !.fcalls[c].barrier = @ + 1],
                                 V.slotref, Store(c, kw, K))
    ELSE IF IsCallSlot(V)
    THEN IF h.fcalls[V.slotcall].has_result
         THEN IF kw THEN [h EXCEPT !.fcalls[c].kwslots[K + 1] = h.fcalls[V.slotcall].result]
              ELSE [h EXCEPT !.fcalls[c].slots[K + 1] = h.fcalls[V.slotcall].result]
         ELSE forward_call_attach([h EXCEPT !.fcalls[c].barrier = @ + 1],
                                  V.slotcall, Store(c, kw, K))
    ELSE h

\* for i in range(len(slots)): forward_store(storeslot, self.slots, i, slots[i])
\* and the same loop over kwslots, from position K on
RECURSIVE forward_call_scan(_, _, _, _, _)
forward_call_scan(h, c, kw, K, args) ==
    IF K >= Len(args) THEN h
    ELSE forward_call_scan(forward_call_forward_store(h, c, kw, K, args[K + 1]),
                           c, kw, K + 1, args)

\* forward_call.__init__(func, *slots, **kwslots); the new object is the last
\* of fcalls
forward_call_init(h, func, slots, kwslots) ==
    LET c == Len(h.fcalls) + 1
        h0 == [h EXCEPT !.fcalls = Append(@,
                   [barrier |-> 1, callbacks |-> <<>>, func |-> func, slots |-> slots,
                    kwslots |-> kwslots, has_result |-> FALSE, result |-> NoResult])]
        h1 == forward_call_scan(h0, c, FALSE, 0, slots)
        h2 == forward_call_scan(h1, c, TRUE, 0, kwslots)
        h3 == [h2 EXCEPT !.fcalls[c].barrier = @ - 1]
    IN  IF h3.fcalls[c].barrier = 0 THEN forward_call_barrier_run(h3, c, RecursionLimit)
        ELSE h3

\* ForwardProxy.bind_value(value) on reference n, value not a reference
ForwardProxy_bind_value(h, n, value) == ForwardReference_call(h, n, value, RecursionLimit)

\* ForwardReference.__call__(m) on reference n with the reference m as value
ForwardReference_call_reference(h, n, m) == ForwardReference_attach(h, m, Reference(n))

\* ForwardContext.define(value, name), value not a reference
ForwardContext_define(h, name, value) ==
    IF name \notin h.toplevel THEN FRaise(h, "KeyError")
    ELSE ForwardReference_call(h, <<name>>, value, RecursionLimit)

\* the references some callback list names
Referenced(h) ==
    UNION {{h.callbacks[m][i].ref : i \in 1..Len(h.callbacks[m])} : m \in Nodes}

\* TOPLEVEL and children are WeakValueDictionary: reference n goes away once
\* nothing holds it. PENDING holds it while it has callbacks, its children
\* hold it as their parent, and a callback list holds it as a callable.
Collectable(h, n) ==
    /\ n \in Live(h)
    /\ h.callbacks[n] = <<>>
    /\ h.children[n] = <<>>
    /\ n \notin Referenced(h)
    /\ \A c \in 1..Len(h.fcalls) :
           RefSlot(n) \notin SeqToSet(h.fcalls[c].slots) \cup SeqToSet(h.fcalls[c].kwslots)

Collected(h, n) ==
    IF Len(n) = 1 THEN [h EXCEPT !.toplevel = @ \ {n[1]}]
    ELSE [h EXCEPT !.children[Parent(n)] = ListRemove(@, n[Len(n)])]

\* the number of entries in the callback lists of the references ns
RECURSIVE Entries(_, _)
Entries(h, ns) ==
    IF ns = {} THEN 0
    ELSE LET n == CHOOSE m \in ns : TRUE
         IN  Len(h.callbacks[n]) + Entries(h, ns \ {n})

\* the number of argument slots of the first n forward_call objects
RECURSIVE Slots(_, _)
Slots(h, n) ==
    IF n = 0 THEN 0
    ELSE Len(h.fcalls[n].slots) + Len(h.fcalls[n].kwslots) + Slots(h, n - 1)

\* -------------------------------------- forward references: state machine
\* the operation returned (or raised) leaving context h
DoForward(h) ==
    /\ Cardinality(Live(h)) <= MaxRefs
    /\ Entries(h, Nodes) <= MaxCallbacks
    /\ Len(h.fcalls) <= MaxCalls
    /\ Slots(h, Len(h.fcalls)) <= MaxSlots
    /\ \A c \in 1..Len(h.fcalls) : h.fcalls[c].barrier + MaxUnderrun >= 0
    /\ toplevel' = h.toplevel
    /\ children' = h.children
    /\ callbacks' = h.callbacks
    /\ pending' = h.pending
    /\ fcalls' = h.fcalls
    /\ UNCHANGED <<cfg, val, vals, seq>>

\* context(name)
ContextCall ==
    \E name \in TopNames :
        /\ DoForward(ForwardContext_call(Context, name))
        /\ UNCHANGED defined

\* n.k
ChildAccess ==
    \E n \in Live(Context), k \in ChildNames :
        /\ Append(n, k) \in Nodes
        /\ DoForward(ForwardReference_getattribute(Context, n, k))
        /\ UNCHANGED defined

\* n._.attach(func, index) with a function that no reference holds: the
\* first of the functions 1, 2, ... that is free
ProxyAttach ==
    \E n \in Live(Context), index \in Indexes, func \in Functions :
        /\ func \notin Attached(Context)
        /\ \A g \in Functions : g < func => g \in Attached(Context)
        /\ DoForward(ForwardProxy_attach(Context, n, func, index))
        /\ UNCHANGED defined

\* n._.bind_value(value) on a child reference
ProxyBindValue ==
    \E n \in Live(Context), o \in Objects :
        /\ Len(n) > 1
        /\ DoForward(ForwardProxy_bind_value(Context, n, Value(o)))
        /\ UNCHANGED defined

\* n(m) for references n and m, top-level or child
BindReference ==
    \E n \in Live(Context), m \in Live(Context) :
        /\ DoForward(ForwardReference_call_reference(Context, n, m))
        /\ UNCHANGED defined

\* context.define(value, name)
ContextDefine ==
    \E name \in TopNames, o \in Objects :
        LET h == ForwardContext_define(Context, name, Value(o))
        IN  /\ DoForward(h)
            /\ defined' = IF h.err = "ok" THEN defined \cup {name} ELSE defined

\* the program drops its last hold on reference n
Collect ==
    \E n \in Nodes :
        /\ Collectable(Context, n)
        /\ DoForward(Collected(Context, n))
        /\ defined' = IF Len(n) = 1 THEN defined \ {n[1]} ELSE defined

\* the function of a forward_call
CallFunctions == {3}

\* the numbers of positional and of keyword arguments of a forward_call
Arities == {<<0, 0>>, <<1, 0>>, <<2, 0>>, <<1, 1>>}

\* what the program passes as an argument: a concrete value, a reference it
\* holds, or a forward_call it constructed
Arguments(h) ==
    {Value(1)} \cup {RefSlot(n) : n \in Live(h)} \cup {CallSlot(c) : c \in 1..Len(h.fcalls)}

\* forward_call(func, *slots, **kwslots)
NewCall ==
    \E func \in CallFunctions, ar \in Arities :
        \E slots \in [1..ar[1] -> Arguments(Context)],
           kwslots \in [1..ar[2] -> Arguments(Context)] :
            /\ DoForward(forward_call_init(Context, func, slots, kwslots))
            /\ UNCHANGED defined

\* c.__attach(func), idx = 0 by default, on a forward_call with a function
\* that nothing holds: the first of the functions 1, 2, ... that is free
CallAttach ==
    \E c \in 1..Len(fcalls), func \in Functions :
        /\ func \notin Attached(Context)
        /\ \A g \in Functions : g < func => g \in Attached(Context)
        /\ DoForward(forward_call_attach(Context, c, Function(func, 0)))
        /\ UNCHANGED defined

InitForward == InitHeap({Config("assoc", "two", "ONE", "ONE", NoIndex, NoIndex)})

NextForward ==
    \/ ContextCall
    \/ ChildAccess
    \/ ProxyAttach
    \/ ProxyBindValue
    \/ BindReference
    \/ ContextDefine
    \/ Collect

SpecForward == InitForward /\ [][NextForward]_vars

\* forward references together with forward_call objects
NextCall ==
    \/ ContextCall
    \/ ChildAccess
    \/ ContextDefine
    \/ NewCall
    \/ CallAttach

SpecCall == InitForward /\ [][NextCall]_vars

\* ------------------------------------------------ forward references: claims
\* the calls in the log of h that invoked function id, in order
RECURSIVE SelectCalls(_, _)
SelectCalls(calls, id) ==
    IF calls = <<>> THEN <<>>
    ELSE (IF Head(calls).id = id THEN <<Head(calls)>> ELSE <<>>) \o SelectCalls(Tail(calls), id)

CallsOf(h, id) == SelectCalls(h.calls, id)

Call(cb, value) == [id |-> cb.id, index |-> cb.index, value |-> value]

\* the context h as the next operation finds it
Later(h) == [h EXCEPT !.err = "ok", !.calls = <<>>]

\* the entries of the callback list of n that are functions
FunctionsOf(h, n) == {cb \in SeqToSet(h.callbacks[n]) : cb.id # 0}

\* C16: binding a reference to a concrete value v invokes every function
\* attached to it exactly once, with v and the index it was attached with, and
\* no bind that follows invokes it again.
C16_CallbacksOnce ==
    \A n \in Live(Context), o \in Objects :
        LET h == ForwardProxy_bind_value(Context, n, Value(o))
        IN  \A cb \in FunctionsOf(Context, n) :
                /\ CallsOf(h, cb.id) = <<Call(cb, Value(o))>>
                /\ \A m \in Live(h), o2 \in Objects :
                       CallsOf(ForwardProxy_bind_value(Later(h), m, Value(o2)), cb.id) = <<>>

\* the value found from v along the names of reference n below its top level
RECURSIVE ValueAt(_, _)
ValueAt(v, names) ==
    IF names = <<>> THEN v ELSE ValueAt(getattr(v, Head(names)), Tail(names))

\* v has the attributes that the names lead through
RECURSIVE HasPath(_, _)
HasPath(v, names) ==
    names = <<>> \/ (hasattr(v, Head(names)) /\ HasPath(getattr(v, Head(names)), Tail(names)))

\* C17: context.define(v, X), with v having an attribute for every created
\* child path, invokes every function attached in the created subtree of X
\* (X.a, X.a.b, ...) exactly once, with the value found along the path (v.a,
\* v.a.b, ...).
C17_ChildrenBound ==
    \A x \in toplevel, o \in Objects :
        (\A n \in Subtree(Context, <<x>>) : HasPath(Value(o), Tail(n))) =>
            LET h == ForwardContext_define(Context, x, Value(o))
            IN  \A n \in Subtree(Context, <<x>>) \ {<<x>>} :
                    \A cb \in FunctionsOf(Context, n) :
                        CallsOf(h, cb.id) = <<Call(cb, ValueAt(Value(o), Tail(n)))>>

\* C18: after every operation that returned or raised, a reference is in the
\* pending set of its context if and only if its callback list is not empty.
C18_PendingIffCallbacks ==
    /\ pending \subseteq Live(Context)
    /\ \A n \in Nodes : n \in pending <=> callbacks[n] # <<>>

\* one reference is pending while another, with a child, was defined and has
\* left the pending set
C18_Witness ==
    \E n \in Live(Context), x \in defined :
        /\ n \in pending /\ callbacks[n] # <<>>
        /\ <<x>> \in Live(Context) /\ <<x>> \notin pending /\ children[<<x>>] # <<>>

\* the top-level names with a callback somewhere in their created subtree
Waiting(h) == {x \in h.toplevel : \E n \in Subtree(h, <<x>>) : h.callbacks[n] # <<>>}

\* C19: once define() has returned for every top-level name with a callback
\* somewhere in its created subtree, the pending set is empty.
C19_DefinedNonePending == Waiting(Context) \subseteq defined => pending = {}

\* C20: after a reference was bound to a concrete value, attach on it raises
\* and leaves the callback lists and the pending set as they were.
C20_AttachRejected ==
    \A n \in Live(Context), o \in Objects :
        LET h == ForwardProxy_bind_value(Context, n, Value(o))
        IN  h.err = "ok" =>
                \A func \in Functions, index \in Indexes :
                    LET h2 == ForwardProxy_attach(Later(h), n, func, index)
                    IN  /\ h2.err # "ok"
                        /\ h2.callbacks = h.callbacks
                        /\ h2.pending = h.pending

\* C21: after context.define(v1, X) returned, a second define of X with another
\* value calls no function, whatever child of X was created and whatever
\* function was attached to that child in between.
C21_ResolvedOnce ==
    \A x \in toplevel, o1 \in Objects, o2 \in Objects, k \in ChildNames :
        \A func \in Functions \ Attached(Context), index \in Indexes :
            LET h1 == ForwardContext_define(Context, x, Value(o1))
                h2 == ForwardReference_getattribute(Later(h1), <<x>>, k)
                h3 == ForwardProxy_attach(h2, <<x, k>>, func, index)
                h4 == ForwardContext_define(Later(h3), x, Value(o2))
            IN  h1.err = "ok" => h4.calls = <<>>

\* C22: binding X to another reference Y calls no function and leaves the
\* callbacks of X and of its children in place; a later define of Y with a
\* value v that has the attributes of the created paths calls the functions of
\* X with v, those of every child of X with the attribute of v along its path,
\* and empties their callback lists.
C22_ChainedBind ==
    \A x \in toplevel, y \in toplevel, o \in Objects :
        x # y =>
            LET h1 == ForwardReference_call_reference(Context, <<x>>, <<y>>)
                h2 == ForwardContext_define(Later(h1), y, Value(o))
                sub == Subtree(Context, <<x>>)
            IN  /\ h1.err = "ok" /\ h1.calls = <<>>
                /\ \A n \in sub : h1.callbacks[n] = callbacks[n]
                /\ (\A n \in sub \cup Subtree(Context, <<y>>) : HasPath(Value(o), Tail(n))) =>
                       \A n \in sub :
                           /\ h2.callbacks[n] = <<>>
                           /\ \A cb \in FunctionsOf(Context, n) :
                                  Call(cb, ValueAt(Value(o), Tail(n))) \in SeqToSet(h2.calls)

\* h and g hold the same references with the same callbacks, and the same
\* pending set
SameContext(h, g) ==
    /\ h.toplevel = g.toplevel
    /\ h.children = g.children
    /\ h.callbacks = g.callbacks
    /\ h.pending = g.pending

Unresolved(h, V) == IsRefSlot(V) \/ (IsCallSlot(V) /\ ~h.fcalls[V.slotcall].has_result)

\* the slot holds a value
Concrete(V) == ~IsRefSlot(V) /\ ~IsCallSlot(V)

\* the calls in the log of h in which forward_call c called its function
RunsOf(h, c) ==
    {i \in 1..Len(h.calls) : "run" \in DOMAIN h.calls[i] /\ h.calls[i].run = c}

\* every argument slot of forward_call c in h holds a value
AllConcrete(h, c) ==
    \A V \in SeqToSet(h.fcalls[c].slots) \cup SeqToSet(h.fcalls[c].kwslots) : Concrete(V)

\* the cached result of forward_call c in h is its function applied to the
\* values its slots hold
ResultOfSlots(h, c) ==
    /\ h.fcalls[c].has_result
    /\ h.fcalls[c].result = Result(h.fcalls[c].func, h.fcalls[c].slots, h.fcalls[c].kwslots)

\* the argument slots of c that held a value in g hold the same value in h
ConcreteKept(g, h, c) ==
    /\ \A i \in 1..Len(g.fcalls[c].slots) :
           Concrete(g.fcalls[c].slots[i]) => h.fcalls[c].slots[i] = g.fcalls[c].slots[i]
    /\ \A i \in 1..Len(g.fcalls[c].kwslots) :
           Concrete(g.fcalls[c].kwslots[i]) => h.fcalls[c].kwslots[i] = g.fcalls[c].kwslots[i]

\* C24: a forward_call constructed with an unresolved slot does not call its
\* function and has no result; a forward_call has a result only when every
\* slot holds a value, and the result is the function applied to those values;
\* a define makes a forward_call call its function at most once, never when it
\* has a result already, and only with every slot filled and the concrete
\* arguments as they were.
C24_DeferredCall ==
    /\ \A func \in CallFunctions, ar \in Arities :
           \A slots \in [1..ar[1] -> Arguments(Context)],
              kwslots \in [1..ar[2] -> Arguments(Context)] :
               LET h == forward_call_init(Context, func, slots, kwslots)
                   c == Len(fcalls) + 1
               IN  (\E V \in SeqToSet(slots) \cup SeqToSet(kwslots) : Unresolved(Context, V))
                       => ~h.fcalls[c].has_result /\ RunsOf(h, c) = {}
    /\ \A c \in 1..Len(fcalls) :
           fcalls[c].has_result => AllConcrete(Context, c) /\ ResultOfSlots(Context, c)
    /\ \A x \in TopNames, o \in Objects :
           LET h == ForwardContext_define(Context, x, Value(o))
           IN  \A c \in 1..Len(fcalls) :
                   /\ Cardinality(RunsOf(h, c)) <= (IF fcalls[c].has_result THEN 0 ELSE 1)
                   /\ RunsOf(h, c) # {} =>
                          /\ AllConcrete(h, c) /\ ResultOfSlots(h, c)
                          /\ ConcreteKept(Context, h, c)

\* the number of positions of the sequence args that hold an unresolved slot
RECURSIVE CountUnresolved(_, _)
CountUnresolved(h, args) ==
    IF args = <<>> THEN 0
    ELSE (IF Unresolved(h, Head(args)) THEN 1 ELSE 0) + CountUnresolved(h, Tail(args))

\* C25: between operations the barrier of every forward_call is the number of
\* its slots that are still unresolved, it is not negative, and the
\* forward_call has a result if and only if its barrier is zero.
C25_Barrier ==
    \A c \in 1..Len(fcalls) :
        /\ fcalls[c].barrier =
               CountUnresolved(Context, fcalls[c].slots) + CountUnresolved(Context, fcalls[c].kwslots)
        /\ fcalls[c].barrier >= 0
        /\ fcalls[c].has_result <=> fcalls[c].barrier = 0

\* the sequence args with every forward_call that has a result replaced by
\* that result
Replaced(h, args) ==
    [i \in 1..Len(args) |->
        IF IsCallSlot(args[i]) /\ h.fcalls[args[i].slotcall].has_result
        THEN h.fcalls[args[i].slotcall].result ELSE args[i]]

\* C26: constructing a forward_call puts the cached result of every resolved
\* forward_call among its arguments in the slot, attaches nothing to that
\* forward_call and counts only the unresolved slots in the barrier; when no
\* slot is unresolved the function is called once during construction, with
\* the arguments so replaced, and the result is cached.
C26_ImmediateCall ==
    \A func \in CallFunctions, ar \in Arities :
        \A slots \in [1..ar[1] -> Arguments(Context)],
           kwslots \in [1..ar[2] -> Arguments(Context)] :
            LET h == forward_call_init(Context, func, slots, kwslots)
                c == Len(fcalls) + 1
                args == Replaced(Context, slots)
                kwargs == Replaced(Context, kwslots)
                n == CountUnresolved(Context, slots) + CountUnresolved(Context, kwslots)
            IN  /\ h.err = "ok"
                /\ h.fcalls[c].barrier = n
                /\ \A d \in 1..Len(fcalls) :
                       fcalls[d].has_result => h.fcalls[d] = fcalls[d]
                /\ IF n = 0
                   THEN /\ h.fcalls[c].has_result
                        /\ h.fcalls[c].result = Result(func, args, kwargs)
                        /\ h.calls = <<Run(c, Result(func, args, kwargs))>>
                        /\ h.callbacks = callbacks /\ h.pending = pending
                   ELSE /\ ~h.fcalls[c].has_result
                        /\ h.fcalls[c].slots = args /\ h.fcalls[c].kwslots = kwargs
                        /\ h.calls = <<>>

\* a forward_call with a result exists, and a forward_call is constructed with
\* it as an argument: alone, and next to an unresolved reference
C26_Witness ==
    \E d \in 1..Len(fcalls), n \in Live(Context) :
        /\ fcalls[d].has_result /\ Len(fcalls) < MaxCalls
        /\ forward_call_init(Context, 3, <<CallSlot(d)>>, <<>>).fcalls[Len(fcalls) + 1].result
               = Result(3, <<fcalls[d].result>>, <<>>)
        /\ forward_call_init(Context, 3, <<CallSlot(d)>>, <<RefSlot(n)>>).fcalls[Len(fcalls) + 1].barrier = 1

\* the entries of the callback queue of forward_call c that are functions
QueuedOn(h, c) == {cb \in SeqToSet(h.fcalls[c].callbacks) : cb.id # 0}

\* in the log of h, forward_call c calls its function before function id is
\* called
RunBefore(h, c, id) ==
    \E i \in RunsOf(h, c) : \A j \in 1..Len(h.calls) : h.calls[j].id = id => i < j

\* C27: a function attached to a forward_call that has its result is called
\* at once, with the cached result, and is not queued; a function queued on a
\* forward_call without result is called by the define that resolves the
\* forward_call, exactly once, with the result and after the forward_call has
\* called its own function, it is not called by a define that leaves the
\* forward_call unresolved, and it is off the queue once the result is there.
C27_AttachToCall ==
    \A c \in 1..Len(fcalls) :
        /\ fcalls[c].has_result =>
               /\ fcalls[c].callbacks = <<>>
               /\ \A func \in Functions :
                      LET h == forward_call_attach(Context, c, Function(func, 0))
                      IN  /\ h.calls = <<Call(Function(func, 0), fcalls[c].result)>>
                          /\ h.fcalls = fcalls
        /\ ~fcalls[c].has_result =>
               \A x \in toplevel, o \in Objects :
                   LET h == ForwardContext_define(Context, x, Value(o))
                   IN  \A cb \in QueuedOn(Context, c) :
                           IF h.fcalls[c].has_result
                           THEN /\ CallsOf(h, cb.id) = <<Call(cb, h.fcalls[c].result)>>
                                /\ RunBefore(h, c, cb.id)
                                /\ cb \notin QueuedOn(h, c)
                           ELSE /\ CallsOf(h, cb.id) = <<>>
                                /\ cb \in QueuedOn(h, c)

\* a function is queued on a forward_call and a define resolves the call; a
\* forward_call has its result and a function can be attached to it
C27_Witness ==
    /\ \E c \in 1..Len(fcalls), x \in toplevel, o \in Objects :
           /\ ~fcalls[c].has_result /\ QueuedOn(Context, c) # {}
           /\ ForwardContext_define(Context, x, Value(o)).fcalls[c].has_result
    /\ \E c \in 1..Len(fcalls) : fcalls[c].has_result

\* the functions queued on forward_call c in h, in the order attached
QueueOrder(h, c) ==
    LET IsFunction(cb) == cb.id # 0
        q == SelectSeq(h.fcalls[c].callbacks, IsFunction)
    IN  [i \in 1..Len(q) |-> q[i].id]

\* the functions of the set ids that the log of h calls, in the order called
CallOrder(h, ids) ==
    LET InIds(e) == e.id \in ids
        q == SelectSeq(h.calls, InIds)
    IN  [i \in 1..Len(q) |-> q[i].id]

Reverse(s) == [i \in 1..Len(s) |-> s[Len(s) + 1 - i]]

\* the functions queued on c that the define of x as object o calls, in the
\* order called
FiredBy(c, x, o) ==
    CallOrder(ForwardContext_define(Context, x, Value(o)),
              {cb.id : cb \in QueuedOn(Context, c)})

\* C28 as stated: the define that resolves a forward_call calls the functions
\* queued on it in the order in which they were attached.
C28_AttachOrder ==
    \A c \in 1..Len(fcalls), x \in toplevel, o \in Objects :
        (~fcalls[c].has_result
         /\ ForwardContext_define(Context, x, Value(o)).fcalls[c].has_result)
            => FiredBy(c, x, o) = QueueOrder(Context, c)

\* C28, amended: the define that resolves a forward_call calls the functions
\* queued on it in the reverse of the order in which they were attached, the
\* last attached first.
C28_ReverseOrder ==
    \A c \in 1..Len(fcalls), x \in toplevel, o \in Objects :
        (~fcalls[c].has_result
         /\ ForwardContext_define(Context, x, Value(o)).fcalls[c].has_result)
            => FiredBy(c, x, o) = Reverse(QueueOrder(Context, c))

\* two functions are queued on a forward_call that a define resolves
C28_Witness ==
    \E c \in 1..Len(fcalls), x \in toplevel, o \in Objects :
        /\ ~fcalls[c].has_result
        /\ Len(QueueOrder(Context, c)) = 2
        /\ ForwardContext_define(Context, x, Value(o)).fcalls[c].has_result
        /\ Len(FiredBy(c, x, o)) = 2

\* ------------------------------------------- ordered endpoints: assignment
\* the lists of distinct valid objects offered to the container of endpoint e
DistinctValid(e) ==
    {lst \in ListsUpTo(e, MaxLen) : NoDup(lst) /\ ~Invalid(e, lst)}

\* in heap h, x refers back to owner through the peer endpoint p
RefersBack(h, p, x, owner) ==
    IF KindOf(p) = "ONE" THEN h.val[p][x] = owner
    ELSE IF KindOf(p) = "MANY" THEN owner \in h.vals[p][x]
    ELSE owner \in h.vals[p][x] /\ owner \in SeqToSet(h.seq[p][x])

\* heap h after an assignment of lst to the container of e on owner: no
\* error, the sequence and the membership set are those of lst, and every
\* element of lst refers back to owner
AssignedTo(h, e, owner, lst) ==
    /\ h.err = "ok"
    /\ h.seq[e][owner] = lst
    /\ h.vals[e][owner] = SeqToSet(lst)
    /\ \A x \in SeqToSet(lst) : RefersBack(h, Peer(e), x, owner)

\* C29: o.rl = lst and container[:] = lst, with lst a list of distinct valid
\* objects, leave the ORDERED container of o with the sequence lst, in the
\* order of lst, whatever it held before, and every element of lst refers back
\* to o.
C29_OrderedAssign ==
    \A e \in Ends, o \in Objs :
        KindOf(e) = "ORDERED" /\ HasEnd(o, e) =>
            \A lst \in DistinctValid(e) :
                /\ AssignedTo(OrderedAssociation_assign(Heap, e, o, lst), e, o, lst)
                /\ \A rev \in BOOLEAN :
                       AssignedTo(OrderedAssociation_setslice(Heap, e, o, 0, Len(seq[e][o]), lst, rev),
                                  e, o, lst)

\* C30: on an ORDERED endpoint p with association index k, an association of x
\* with own that is made from the peer side (the peer's associator calling
\* associate(own, x)) inserts x at position k of own's sequence and adds it to
\* the membership set, which then holds the elements of the sequence.
C30_AssociationIndex ==
    \A p \in Ends, own \in Objs :
        KindOf(p) = "ORDERED" /\ AssociationIndex(p) # NoIndex /\ HasEnd(own, p) =>
            \A x \in {y \in Objs : IsInstance(y, p)} \ vals[p][own] :
                LET h == Associate(Heap, p, own, x)
                IN  /\ h.err = "ok"
                    /\ h.seq[p][own] = ListInsert(seq[p][own], AssociationIndex(p), x)
                    /\ h.vals[p][own] = vals[p][own] \cup {x}
                    /\ SeqToSet(h.seq[p][own]) = h.vals[p][own]

\* -------------------------------------------- ordered endpoints: L[i] = new
\* in heap h, x does not refer to owner through the peer endpoint p
RefersNot(h, p, x, owner) ==
    IF KindOf(p) = "ONE" THEN h.val[p][x] # owner
    ELSE owner \notin h.vals[p][x] /\ owner \notin SeqToSet(h.seq[p][x])

\* C31: on an Ordered container L, L[i] = new with new a valid object not in L
\* puts new at position i and leaves every other position as it was; the old
\* value no longer refers to the owner and new does. L[i] = old, with old the
\* value at i, makes no associator call and changes no container.
C31_SetItemReplace ==
    \A e \in Ends, o \in Objs :
        KindOf(e) = "ORDERED" /\ HasEnd(o, e) =>
            \A i \in 0..(Len(seq[e][o]) - 1) :
                LET old == seq[e][o][i + 1]
                    same == OrderedAssociation_setitem(Heap, e, o, i, old)
                IN  /\ same.err = "ok" /\ Untouched(same) /\ same.trace = <<>>
                    /\ \A new \in {y \in Objs : IsInstance(y, e)} \ vals[e][o] :
                           LET h == OrderedAssociation_setitem(Heap, e, o, i, new)
                           IN  /\ h.err = "ok"
                               /\ h.seq[e][o] = [seq[e][o] EXCEPT ![i + 1] = new]
                               /\ h.vals[e][o] = (vals[e][o] \ {old}) \cup {new}
                               /\ RefersNot(h, Peer(e), old, o)
                               /\ RefersBack(h, Peer(e), new, o)

\* ------------------------------------------------- associator calls per change
\* the members of the slot or container of endpoint e on o in heap h
Extension(h, e, o) ==
    IF KindOf(e) = "ONE" THEN {h.val[e][o]} \ {None} ELSE h.vals[e][o]

\* endpoint e keeps its members in a container object: a ONE endpoint of a
\* one_relationship_descriptor keeps its value in a plain attribute
HasContainer(e) == ~(KindOf(e) = "ONE" /\ cfg.impl = "desc")

\* the heaps in which the operations on the slot or container of e on o
\* return, one for every operation and every input
Outcomes(e, o) ==
    CASE KindOf(e) = "ONE" -> {SetOne(Heap, e, o, x) : x \in Inputs(e)}
      [] KindOf(e) = "MANY" ->
            {SetAssociation_add(Heap, e, o, x) : x \in Inputs(e)}
            \cup {SetAssociation_discard(Heap, e, o, x) : x \in Inputs(e)}
            \cup {SetAssociation_remove(Heap, e, o, x) : x \in Inputs(e)}
            \cup {SetAssociation_clear(Heap, e, o, rev) : rev \in BOOLEAN}
            \cup {SetAssociation_assign(Heap, e, o, lst, rev) :
                      lst \in ListsUpTo(e, MaxLen), rev \in BOOLEAN}
      [] OTHER ->
            {OrderedAssociation_append(Heap, e, o, x) : x \in Inputs(e)}
            \cup {OrderedAssociation_insert(Heap, e, o, i, x) :
                      x \in Inputs(e), i \in 0..Len(seq[e][o])}
            \cup {OrderedAssociation_setitem(Heap, e, o, i, x) :
                      x \in Inputs(e), i \in 0..Len(seq[e][o])}
            \cup {OrderedAssociation_setslice(Heap, e, o, ij[1], ij[2], lst, rev) :
                      ij \in {c \in (0..Len(seq[e][o])) \X (0..Len(seq[e][o])) : c[1] <= c[2]},
                      lst \in ListsUpTo(e, MaxLen), rev \in BOOLEAN}
            \cup {OrderedAssociation_delitem(Heap, e, o, i) : i \in 0..Len(seq[e][o])}
            \cup {OrderedAssociation_delslice(Heap, e, o, ij[1], ij[2]) :
                      ij \in {c \in (0..Len(seq[e][o])) \X (0..Len(seq[e][o])) : c[1] <= c[2]}}
            \cup {OrderedAssociation_remove(Heap, e, o, x) : x \in Inputs(e)}
            \cup {OrderedAssociation_clear(Heap, e, o)}
            \cup {OrderedAssociation_assign(Heap, e, o, lst) : lst \in ListsUpTo(e, MaxLen)}

\* the associate and dissociate calls of trace t, in order
AssociatorCalls(t) ==
    LET IsCall(c) == c[1] \in {"associate", "dissociate"}
    IN  SelectSeq(t, IsCall)

\* the number of calls <associator of p>.<what>(x, o) in the calls cs
CallCount(cs, what, p, x, o) ==
    Cardinality({k \in 1..Len(cs) : cs[k] = <<what, p, x, o>>})

\* call k of cs is made by the container of e on o to its peer associator
FromContainer(cs, k, e, o) == cs[k][2] = Peer(e) /\ cs[k][4] = o

\* C32: an operation that returns without error calls the peer associator
\* exactly once for each element it adds to the container (associate) and
\* exactly once for each element it removes (dissociate); every other
\* associator call of the operation is a dissociate made by such an associate
\* call, directly after it, for the occupant it displaces, and that call makes
\* no further call. The number of calls is so bounded by twice the number of
\* elements the operation handles.
C32_OneCallPerChange ==
    \A e \in Ends, o \in Objs :
        HasEnd(o, e) /\ HasContainer(e) =>
            \A h \in Outcomes(e, o) :
                h.err = "ok" =>
                    LET cs == AssociatorCalls(h.trace)
                    IN  /\ \A x \in Extension(h, e, o) \ Extension(Heap, e, o) :
                               CallCount(cs, "associate", Peer(e), x, o) = 1
                        /\ \A x \in Extension(Heap, e, o) \ Extension(h, e, o) :
                               CallCount(cs, "dissociate", Peer(e), x, o) = 1
                        /\ \A k \in 1..Len(cs) :
                               ~FromContainer(cs, k, e, o) =>
                                   /\ cs[k][1] = "dissociate"
                                   /\ k > 1
                                   /\ FromContainer(cs, k - 1, e, o)
                                   /\ cs[k - 1][1] = "associate"
                                   /\ cs[k][4] = cs[k - 1][3]

\* x is moved from the container of one owner into that of another: the
\* associate call displaces the first owner with one dissociate call
C32_Witness ==
    \E e \in Ends, o \in Objs :
        /\ HasEnd(o, e) /\ HasContainer(e)
        /\ \E h \in Outcomes(e, o) :
               /\ h.err = "ok"
               /\ Len(AssociatorCalls(h.trace)) >= 3
               /\ \E k \in 2..Len(AssociatorCalls(h.trace)) :
                      ~FromContainer(AssociatorCalls(h.trace), k, e, o)

\* ------------------------------------------- ordered endpoints: L[i:j] = lst
\* in heap h the side of x at endpoint p is what the state holds
SideKept(h, p, x) ==
    /\ h.val[p][x] = val[p][x]
    /\ h.vals[p][x] = vals[p][x]
    /\ h.seq[p][x] = seq[p][x]

\* C33: a slice assignment L[i:j] = lst that returns without error calls
\* dissociate once for every element of the old slice that is not in lst and
\* for no other element, and associate once for every element of lst that was
\* not in the old slice and for no other element; for an element of both
\* (other than the owner itself, whose side is the container assigned to), the
\* slot, membership set and sequence on its side are unchanged.
C33_SliceDiff ==
    \A e \in Ends, o \in Objs :
        KindOf(e) = "ORDERED" /\ HasEnd(o, e) =>
            \A j \in 0..Len(seq[e][o]), lst \in ListsUpTo(e, MaxLen), rev \in BOOLEAN :
                \A i \in 0..j :
                    LET h == OrderedAssociation_setslice(Heap, e, o, i, j, lst, rev)
                        cs == AssociatorCalls(h.trace)
                        old == SeqToSet(ListSlice(seq[e][o], i, j))
                        new == SeqToSet(lst)
                    IN  h.err = "ok" =>
                            /\ \A x \in Objs :
                                   /\ CallCount(cs, "dissociate", Peer(e), x, o)
                                          = IF x \in old \ new THEN 1 ELSE 0
                                   /\ CallCount(cs, "associate", Peer(e), x, o)
                                          = IF x \in new \ old THEN 1 ELSE 0
                            /\ \A x \in (old \cap new) \ {o} : SideKept(h, Peer(e), x)

\* a container [x] whose slice [0:1] is assigned [z], which dissociates x and
\* associates z, and [x, z], which associates z and leaves x, a member of an
\* ORDERED peer, alone
C33_Witness ==
    \E e \in Ends, o \in Objs :
        /\ KindOf(e) = "ORDERED" /\ KindOf(Peer(e)) = "ORDERED"
        /\ HasEnd(o, e) /\ Len(seq[e][o]) = 1
        /\ Len(seq[Peer(e)][seq[e][o][1]]) = 2
        /\ \E z \in {y \in Objs : IsInstance(y, e)} \ vals[e][o] :
               LET x  == seq[e][o][1]
                   h1 == OrderedAssociation_setslice(Heap, e, o, 0, 1, <<z>>, FALSE)
                   h2 == OrderedAssociation_setslice(Heap, e, o, 0, 1, <<x, z>>, FALSE)
               IN  /\ h1.err = "ok" /\ h2.err = "ok"
                   /\ CallCount(AssociatorCalls(h1.trace), "dissociate", Peer(e), x, o) = 1
                   /\ CallCount(AssociatorCalls(h1.trace), "associate", Peer(e), z, o) = 1
                   /\ CallCount(AssociatorCalls(h2.trace), "associate", Peer(e), z, o) = 1
                   /\ h2.seq[e][o] = <<x, z>>

\* ---------------------------------------- linking from the ONE side of ONE-ORDERED
\* C34: in a ONE-ORDERED relationship without association index, x.parent = d
\* for an x that is not linked to d puts x at the end of d's sequence: the
\* former members keep their positions, so that the sequence lists its
\* members in the order in which they were linked.
C34_AppendInLinkOrder ==
    \A e \in Ends :
        KindOf(e) = "ONE" /\ KindOf(Peer(e)) = "ORDERED" /\ AssociationIndex(Peer(e)) = NoIndex =>
            \A x \in Objs, d \in Objs :
                HasEnd(x, e) /\ IsInstance(d, e) /\ val[e][x] # d =>
                    LET h == SetOne(Heap, e, x, d)
                    IN  /\ h.err = "ok"
                        /\ h.seq[Peer(e)][d] = Append(seq[Peer(e)][d], x)
                        /\ h.val[e][x] = d

\* d's sequence holds one member and a second object is linked to d
C34_Witness ==
    \E e \in Ends, x \in Objs, d \in Objs :
        /\ KindOf(e) = "ONE" /\ KindOf(Peer(e)) = "ORDERED" /\ AssociationIndex(Peer(e)) = NoIndex
        /\ HasEnd(x, e) /\ IsInstance(d, e) /\ val[e][x] # d
        /\ Len(seq[Peer(e)][d]) = 1
        /\ SetOne(Heap, e, x, d).seq[Peer(e)][d] = <<seq[Peer(e)][d][1], x>>

\* --------------------------------------------- ordered endpoints: reordering
\* the number of positions of s that hold x
Occurrences(s, x) == Cardinality({k \in 1..Len(s) : s[k] = x})

\* heap h differs from the state at most in the order of the sequence of e on
\* o, and the operation that made it called no associator
OnlyReordered(h, e, o) ==
    /\ h.err = "ok"
    /\ h.val = val /\ h.vals = vals
    /\ Len(h.seq[e][o]) = Len(seq[e][o])
    /\ \A x \in Objs : Occurrences(h.seq[e][o], x) = Occurrences(seq[e][o], x)
    /\ \A p \in Ends, x \in Objs : <<p, x>> # <<e, o>> => h.seq[p][x] = seq[p][x]
    /\ AssociatorCalls(h.trace) = <<>>

\* C35: sort, with reverse or without, and reverse on an Ordered container
\* leave the membership set, the elements of the sequence with their
\* multiplicities and every other container as they were, and call neither
\* associate nor dissociate.
C35_ReorderOnly ==
    \A e \in Ends, o \in Objs :
        KindOf(e) = "ORDERED" /\ HasEnd(o, e) =>
            /\ OnlyReordered(OrderedAssociation_reverse(Heap, e, o), e, o)
            /\ \A reverse \in BOOLEAN :
                   OnlyReordered(OrderedAssociation_sort(Heap, e, o, reverse), e, o)

\* a container of two members in descending order, which sort and reverse
\* turn around
C35_Witness ==
    \E e \in Ends, o \in Objs :
        /\ KindOf(e) = "ORDERED" /\ HasEnd(o, e) /\ Len(seq[e][o]) = 2
        /\ seq[e][o][1] > seq[e][o][2]
        /\ OrderedAssociation_sort(Heap, e, o, FALSE).seq[e][o] = <<seq[e][o][2], seq[e][o][1]>>
        /\ OrderedAssociation_reverse(Heap, e, o).seq[e][o] = <<seq[e][o][2], seq[e][o][1]>>
        /\ OrderedAssociation_sort(Heap, e, o, TRUE).seq[e][o] = seq[e][o]

\* ------------------------------------------- forward references: bind order
\* the position in the log of the first call of function id, 0 if none
FirstCall(calls, id) ==
    IF \E i \in 1..Len(calls) : calls[i].id = id
    THEN CHOOSE i \in 1..Len(calls) :
             calls[i].id = id /\ \A j \in 1..(i - 1) : calls[j].id # id
    ELSE 0

\* the functions in the callback lists of the references below n
ChildFunctions(h, n) ==
    UNION {{cb.id : cb \in FunctionsOf(h, m)} : m \in Subtree(h, n) \ {n}}

\* C36: binding reference n, after one more function was attached to it, to a
\* concrete value calls the functions of n in the order of its callback list,
\* and every function of n before any function of a reference below n.
C36_OwnCallbacksFirst ==
    \A n \in Live(Context), o \in Objects, f \in Functions, index \in Indexes :
        f \notin Attached(Context) =>
            LET h0 == ForwardProxy_attach(Context, n, f, index)
                h == ForwardProxy_bind_value(h0, n, Value(o))
                cbs == h0.callbacks[n]
            IN  /\ \A i \in 1..Len(cbs), j \in 1..Len(cbs) :
                       (/\ i < j /\ cbs[i].id # 0 /\ cbs[j].id # 0
                        /\ FirstCall(h.calls, cbs[j].id) # 0) =>
                           /\ FirstCall(h.calls, cbs[i].id) # 0
                           /\ FirstCall(h.calls, cbs[i].id) < FirstCall(h.calls, cbs[j].id)
                /\ \A g \in ChildFunctions(h0, n), cb \in FunctionsOf(h0, n) :
                       FirstCall(h.calls, g) # 0 =>
                           /\ FirstCall(h.calls, cb.id) # 0
                           /\ FirstCall(h.calls, cb.id) < FirstCall(h.calls, g)

\* ------------------------------------------------ forward_call: nested calls
\* the positions of the sequence args that hold forward_call c
SlotsHolding(args, c) == {i \in 1..Len(args) : args[i] = CallSlot(c)}

\* The define that takes context g to h respects the nesting of forward_call
\* inner in forward_call outer, whose slots were constructed as slots and
\* kwslots: outer keeps its arguments and stays without result while a slot is
\* unresolved, and when it calls its function, inner has its result, has
\* called its own function earlier, every slot of outer holds a value, the
\* slots that held inner hold the result of inner, and the function is called
\* once, with those slots.
NestedStep(g, h, outer, inner, slots, kwslots) ==
    /\ (\E V \in SeqToSet(g.fcalls[outer].slots) \cup SeqToSet(g.fcalls[outer].kwslots) :
            Unresolved(g, V)) => ~g.fcalls[outer].has_result
    /\ RunsOf(h, outer) # {} =>
           /\ h.fcalls[inner].has_result
           /\ g.fcalls[inner].has_result \/
                  \E i \in RunsOf(h, inner) : \A j \in RunsOf(h, outer) : i < j
           /\ AllConcrete(h, outer)
           /\ \A i \in SlotsHolding(slots, inner) :
                  h.fcalls[outer].slots[i] = h.fcalls[inner].result
           /\ \A i \in SlotsHolding(kwslots, inner) :
                  h.fcalls[outer].kwslots[i] = h.fcalls[inner].result
           /\ Cardinality(RunsOf(h, outer)) = 1
           /\ \A j \in RunsOf(h, outer) :
                  h.calls[j].value =
                      Result(h.fcalls[outer].func, h.fcalls[outer].slots, h.fcalls[outer].kwslots)

\* C37: a forward_call constructed with an unresolved forward_call among its
\* arguments calls its function only after that forward_call has called its
\* own and every other slot is resolved, and receives the inner result in the
\* slot, whichever references the two defines that follow name.
C37_NestedCalls ==
    \A inner \in 1..Len(fcalls), func \in CallFunctions, ar \in Arities :
        \A slots \in [1..ar[1] -> Arguments(Context)],
           kwslots \in [1..ar[2] -> Arguments(Context)] :
            (/\ ~fcalls[inner].has_result
             /\ SlotsHolding(slots, inner) \cup SlotsHolding(kwslots, inner) # {}) =>
                LET outer == Len(fcalls) + 1
                    h0 == forward_call_init(Context, func, slots, kwslots)
                IN  /\ RunsOf(h0, outer) = {} /\ ~h0.fcalls[outer].has_result
                    /\ \A x1 \in TopNames, o1 \in Objects :
                           LET h1 == ForwardContext_define(Later(h0), x1, Value(o1))
                           IN  /\ NestedStep(h0, h1, outer, inner, slots, kwslots)
                               /\ \A x2 \in TopNames, o2 \in Objects :
                                      NestedStep(h1, ForwardContext_define(Later(h1), x2, Value(o2)),
                                                 outer, inner, slots, kwslots)

\* ------------------------------------------------------------- self-assignment
\* C38: assigning a MANY or ORDERED endpoint its own container, x.rs = x.rs,
\* raises nothing and leaves every value, membership set and sequence as it
\* was.
C38_SelfAssign ==
    \A e \in Ends, o \in Objs :
        KindOf(e) \in {"MANY", "ORDERED"} /\ HasEnd(o, e) =>
            \A rev \in RevChoices(Cardinality(vals[e][o])) :
                LET h == IF KindOf(e) = "MANY" THEN SetAssociation_assign_self(Heap, e, o, rev)
                         ELSE OrderedAssociation_assign_self(Heap, e, o)
                IN  h.err = "ok" /\ h.val = val /\ h.vals = vals /\ h.seq = seq

\* ------------------------------------------------- forward references: cycles
\* C39: binding a reference to a concrete value comes to an end by itself, for
\* every way the references were bound to one another: the chain of nested
\* calls never grows until the interpreter cuts it with RecursionError.
C39_BindTerminates ==
    \A n \in Live(Context), o \in Objects :
        ForwardProxy_bind_value(Context, n, Value(o)).err # "RecursionError"

\* ------------------------------------------- forward references: failed bind
\* C40: a bind that raises AttributeError, because the value lacks an attribute
\* that a created child names, has called no function and leaves every
\* callback list, the pending set and every forward_call as they were.
C40_FailedBindNoTrace ==
    \A n \in Live(Context), o \in Objects :
        LET h == ForwardProxy_bind_value(Context, n, Value(o))
        IN  h.err = "AttributeError" =>
                /\ h.calls = <<>>
                /\ h.callbacks = callbacks
                /\ h.pending = pending
                /\ h.fcalls = fcalls

====
